---- MODULE Spec2Model ----
(***************************************************************************)
(* Model of the FaceDetectAge client: the useFaceApi hook (model loading   *)
(* and detectFaces with its upscaled detection canvas, coordinate          *)
(* remapping and three-crop ensemble), and calculateAnalysisStats.         *)
(*                                                                         *)
(* JavaScript numbers are modelled as exact rationals [n |-> _, d |-> _]   *)
(* with d > 0; Math.round is floor(x + 1/2).                               *)
(***************************************************************************)
EXTENDS Integers, Sequences, FiniteSets, TLC

VARIABLES
    isLoaded,         \* useFaceApi: useState(false)
    isLoading,        \* useFaceApi: useState(true)
    error,            \* useFaceApi: useState(null); "" stands for null
    pc,               \* position of the detectFaces call
    image,            \* the HTMLImageElement passed to detectFaces
    useEnsemble,      \* second argument of detectFaces
    scale,            \* detectFaces: const scale
    canvas,           \* detectFaces: the offscreen detection canvas
    detections,       \* detectFaces: what detectAllFaces resolved to
    initialResults,   \* detectFaces: const initialResults
    crops,            \* ensemble loop: const crops of the current face
    preds,            \* ensemble loop: the three crop promises of the face
    ensembleResults,  \* detectFaces: const ensembleResults
    returned,         \* value the detectFaces promise resolved to
    thrown,           \* message the detectFaces promise rejected with
    arg,              \* input of a function applied on its own
    out,              \* what the function returned for arg
    env,              \* server: process.env.DATABASE_URL
    storage,          \* server: which class `storage` is an instance of
    mem,              \* server: MemStorage.users and MemStorage.analyses
    database,         \* server: the tables users and face_analyses
    now,              \* server: the clock read by new Date() and defaultNow()
    issued,           \* server: how many UUIDs have been generated
    response,         \* server: the last request and the response sent for it
    uploadedImage,    \* FaceAnalysis: useState(null)
    imageDimensions,  \* FaceAnalysis: useState(null)
    detectedFaces,    \* FaceAnalysis: useState([])
    analysisStats,    \* FaceAnalysis: useState(null)
    isAnalyzing,      \* FaceAnalysis: useState(false)
    analysisProgress, \* FaceAnalysis: useState(0)
    imageName,        \* FaceAnalysis: useState('')
    runs,             \* FaceAnalysis: the uploads made, each with its closure
    toasts,           \* FaceAnalysis: the notifications shown, in order
    posted,           \* FaceAnalysis: the bodies given to saveAnalysisMutation.mutate
    localHistory      \* localStorage item 'faceAnalysisHistory'

vars == <<isLoaded, isLoading, error, pc, image, useEnsemble, scale, canvas,
          detections, initialResults, crops, preds, ensembleResults,
          returned, thrown, arg, out,
          env, storage, mem, database, now, issued, response,
          uploadedImage, imageDimensions, detectedFaces, analysisStats,
          isAnalyzing, analysisProgress, imageName, runs, toasts, posted,
          localHistory>>

hookVars == <<isLoaded, isLoading, error>>
callVars == <<pc, image, useEnsemble, scale, canvas, detections,
              initialResults, crops, preds, ensembleResults, returned, thrown>>
fnVars == <<arg, out>>
serverVars == <<env, storage, mem, database, now, issued, response>>
stateVars == <<uploadedImage, imageDimensions, detectedFaces, analysisStats,
               isAnalyzing, analysisProgress, imageName>>
uiVars == <<stateVars, runs, toasts, posted, localHistory>>

----------------------------------------------------------------------------
(* Bounds of the model *)

\* faces detectAllFaces reports in one image
MaxFaces == 2

\* ages given to the age-confidence curve: -20 .. MaxCurveAge, in steps of 1/AgeDen
MaxCurveAge == 120

AgeDen == 4

\* image widths given to the canvas computation: 1 .. MaxImageWidth
MaxImageWidth == 1100

\* faces given to calculateAnalysisStats
MaxStatFaces == 3

----------------------------------------------------------------------------
(* JavaScript number arithmetic on exact rationals *)

R(n, d) == [n |-> n, d |-> d]

Int2R(i) == R(i, 1)

RAdd(a, b) == R(a.n * b.d + b.n * a.d, a.d * b.d)

RSub(a, b) == R(a.n * b.d - b.n * a.d, a.d * b.d)

RMul(a, b) == R(a.n * b.n, a.d * b.d)

\* a / k for a positive integer k
RDivInt(a, k) == R(a.n, a.d * k)

REq(a, b) == a.n * b.d = b.n * a.d

RLess(a, b) == a.n * b.d < b.n * a.d

RLeq(a, b) == a.n * b.d <= b.n * a.d

MathMax(a, b) == IF RLess(a, b) THEN b ELSE a

MathMin(a, b) == IF RLess(b, a) THEN b ELSE a

MathAbs(a) == R(IF a.n < 0 THEN 0 - a.n ELSE a.n, a.d)

\* Math.round: the integer nearest to a, halves towards +Infinity
MathRound(a) == (2 * a.n + a.d) \div (2 * a.d)

\* the value undefined of a missing numeric property
Undefined == R(0, 0)

\* v ?? dflt
Coalesce(v, dflt) == IF v = Undefined THEN dflt ELSE v

\* a || b on numbers
OrElse(a, b) == IF a # 0 THEN a ELSE b

----------------------------------------------------------------------------
(* useFaceApi.detectFaces: detection canvas and initial results *)

TargetWidth == 1024

\* a / b for a positive rational b
RDiv(a, b) == R(a.n * b.d, a.d * b.n)

NaturalW(img) == OrElse(img.naturalWidth, img.width)

NaturalH(img) == OrElse(img.naturalHeight, img.height)

ScaleNoFloor(naturalW) ==
    RDiv(Int2R(TargetWidth), MathMax(Int2R(1), Int2R(naturalW)))

\* const scale = Math.max(1, targetWidth / Math.max(1, naturalW))
Scale(naturalW) ==
    MathMax(Int2R(1), RDiv(Int2R(TargetWidth), MathMax(Int2R(1), Int2R(naturalW))))

\* canvas.width, canvas.height
Canvas(img) ==
    [width  |-> MathRound(RMul(Int2R(NaturalW(img)), Scale(NaturalW(img)))),
     height |-> MathRound(RMul(Int2R(NaturalH(img)), Scale(NaturalW(img))))]

InvScaleAsScale(s) == s

\* const invScale = 1 / scale
InvScale(s) == RDiv(Int2R(1), s)

\* an id that does not depend on the position
FaceIdWithoutIndex(index) == <<"face-", 1>>

\* `face-${index + 1}`
FaceId(index) == <<"face-", index + 1>>

InitialAgeConfidenceNoFloor(age) ==
    MathMin(Int2R(95),
            RSub(Int2R(90), RMul(MathAbs(RSub(age, Int2R(30))), R(1, 2))))

\* Math.min(95, Math.max(70, 90 - Math.abs(age - 30) * 0.5))
InitialAgeConfidence(age) ==
    MathMin(Int2R(95),
            MathMax(Int2R(70),
                    RSub(Int2R(90), RMul(MathAbs(RSub(age, Int2R(30))), R(1, 2)))))

\* Math.round((genderProbability ?? 0) * 100)
GenderConfidence(genderProbability) ==
    MathRound(RMul(Coalesce(genderProbability, Int2R(0)), Int2R(100)))

ScalePoint(point, invScale) ==
    [x |-> RMul(point.x, invScale), y |-> RMul(point.y, invScale)]

\* the callback of detections.map, index counted from 0
InitialResult(detection, index, invScale) ==
    LET box == detection.detection.box
    IN  [id               |-> FaceId(index),
         box              |-> [x      |-> RMul(box.x, invScale),
                               y      |-> RMul(box.y, invScale),
                               width  |-> RMul(box.width, invScale),
                               height |-> RMul(box.height, invScale)],
         rawBox           |-> [x |-> box.x, y |-> box.y,
                               width |-> box.width, height |-> box.height],
         age              |-> detection.age,
         ageConfidence    |-> MathRound(InitialAgeConfidence(detection.age)),
         gender           |-> detection.gender,
         genderConfidence |-> GenderConfidence(detection.genderProbability),
         landmarks        |-> [i \in DOMAIN detection.landmarks.positions |->
                                  ScalePoint(detection.landmarks.positions[i], invScale)]]

InitialResults(dets, invScale) ==
    [k \in DOMAIN dets |-> InitialResult(dets[k], k - 1, invScale)]

\* the callback of initialResults.map when useEnsemble is false
NonEnsembleResult(r) ==
    [id               |-> r.id,
     box              |-> r.box,
     age              |-> MathRound(r.age),
     ageConfidence    |-> r.ageConfidence,
     gender           |-> r.gender,
     genderConfidence |-> r.genderConfidence,
     landmarks        |-> r.landmarks]

----------------------------------------------------------------------------
(* useFaceApi.detectFaces: the three-crop ensemble *)

\* [0.1, 0.25, 0.45]
Paddings == <<R(1, 10), R(1, 4), R(9, 20)>>

\* the callback of [0.1, 0.25, 0.45].map
Crop(rawBox, cv, pad) ==
    LET cx == MathMax(Int2R(0), RSub(rawBox.x, RMul(rawBox.width, pad)))
        cy == MathMax(Int2R(0), RSub(rawBox.y, RMul(rawBox.height, pad)))
        cw == MathMin(RSub(Int2R(cv.width), cx),
                      RMul(rawBox.width, RAdd(Int2R(1), RMul(pad, Int2R(2)))))
        ch == MathMin(RSub(Int2R(cv.height), cy),
                      RMul(rawBox.height, RAdd(Int2R(1), RMul(pad, Int2R(2)))))
    IN  [x |-> MathRound(cx), y |-> MathRound(cy),
         w |-> MathRound(cw), h |-> MathRound(ch)]

Crops(rawBox, cv) == [i \in DOMAIN Paddings |-> Crop(rawBox, cv, Paddings[i])]

\* a crop promise that has not settled yet
Pending == [kind |-> "pending"]

\* detectSingleFace found no face: res is undefined, the callback returns null
NoFace == [kind |-> "undefined"]

Null == [kind |-> "null"]

\* what the crop callback returns for the result res of detectSingleFace
PredOf(res) ==
    IF res = NoFace
    THEN Null
    ELSE [kind              |-> "pred",
          age               |-> res.age,
          gender            |-> res.gender,
          genderProbability |-> Coalesce(res.genderProbability, Int2R(0))]

\* preds.filter(Boolean)
Valid(ps) == SelectSeq(ps, LAMBDA p : p.kind = "pred")

RECURSIVE SumAge(_)
\* valid.reduce((s, p) => s + p.age, 0)
SumAge(valid) ==
    IF valid = <<>> THEN Int2R(0)
    ELSE RAdd(SumAge(SubSeq(valid, 1, Len(valid) - 1)), valid[Len(valid)].age)

RECURSIVE SumGenderProbability(_)
\* valid.reduce((s, p) => s + p.genderProbability, 0)
SumGenderProbability(valid) ==
    IF valid = <<>> THEN Int2R(0)
    ELSE RAdd(SumGenderProbability(SubSeq(valid, 1, Len(valid) - 1)),
              valid[Len(valid)].genderProbability)

EnsembleAgeConfidenceNoFloor(avgAge) ==
    MathMin(Int2R(95),
            RSub(Int2R(90), RMul(MathAbs(RSub(avgAge, Int2R(30))), R(1, 2))))

\* Math.min(95, Math.max(70, 90 - Math.abs(avgAge - 30) * 0.5))
EnsembleAgeConfidence(avgAge) ==
    MathMin(Int2R(95),
            MathMax(Int2R(70),
                    RSub(Int2R(90), RMul(MathAbs(RSub(avgAge, Int2R(30))), R(1, 2)))))

FallbackResultFloorAge(r) ==
    [id               |-> r.id,
     box              |-> r.box,
     age              |-> r.age.n \div r.age.d,
     ageConfidence    |-> r.ageConfidence,
     gender           |-> r.gender,
     genderConfidence |-> r.genderConfidence,
     landmarks        |-> r.landmarks]

\* the object pushed when valid.length === 0
FallbackResult(r) ==
    [id               |-> r.id,
     box              |-> r.box,
     age              |-> MathRound(r.age),
     ageConfidence    |-> r.ageConfidence,
     gender           |-> r.gender,
     genderConfidence |-> r.genderConfidence,
     landmarks        |-> r.landmarks]

AveragedResultCountNulls(r, valid) ==
    LET avgAge              == RDivInt(SumAge(valid), Len(Paddings))
        avgGenderProb       == RDivInt(SumGenderProbability(valid), Len(Paddings))
        avgGenderConfidence == MathRound(RMul(avgGenderProb, Int2R(100)))
        ageConfidence       == EnsembleAgeConfidence(avgAge)
    IN  [id               |-> r.id,
         box              |-> r.box,
         age              |-> MathRound(avgAge),
         ageConfidence    |-> MathRound(ageConfidence),
         gender           |-> valid[1].gender,
         genderConfidence |-> avgGenderConfidence,
         landmarks        |-> r.landmarks]

AveragedResultRawBox(r, valid) ==
    LET avgAge              == RDivInt(SumAge(valid), Len(valid))
        avgGenderProb       == RDivInt(SumGenderProbability(valid), Len(valid))
        avgGenderConfidence == MathRound(RMul(avgGenderProb, Int2R(100)))
        ageConfidence       == EnsembleAgeConfidence(avgAge)
    IN  [id               |-> r.id,
         box              |-> r.rawBox,
         age              |-> MathRound(avgAge),
         ageConfidence    |-> MathRound(ageConfidence),
         gender           |-> valid[1].gender,
         genderConfidence |-> avgGenderConfidence,
         landmarks        |-> r.landmarks]

\* the object pushed when at least one crop gave a prediction
AveragedResult(r, valid) ==
    LET avgAge              == RDivInt(SumAge(valid), Len(valid))
        avgGenderProb       == RDivInt(SumGenderProbability(valid), Len(valid))
        avgGenderConfidence == MathRound(RMul(avgGenderProb, Int2R(100)))
        ageConfidence       == EnsembleAgeConfidence(avgAge)
    IN  [id               |-> r.id,
         box              |-> r.box,
         age              |-> MathRound(avgAge),
         ageConfidence    |-> MathRound(ageConfidence),
         gender           |-> valid[1].gender,
         genderConfidence |-> avgGenderConfidence,
         landmarks        |-> r.landmarks]

\* one iteration of the for loop after Promise.all resolved to ps
EnsembleFace(r, ps) ==
    IF Len(Valid(ps)) = 0 THEN FallbackResult(r) ELSE AveragedResult(r, Valid(ps))

----------------------------------------------------------------------------
(* Inputs: images and what the face-api.js networks answer *)

Img(w, h) == [naturalWidth |-> w, naturalHeight |-> h, width |-> w, height |-> h]

Images == {Img(512, 384), Img(300, 200), Img(2048, 1536)}

Box(x, y, w, h) == [x |-> x, y |-> y, width |-> w, height |-> h]

Pt(x, y) == [x |-> x, y |-> y]

Face(box, age, gender, prob, points) ==
    [kind              |-> "face",
     detection         |-> [box |-> box],
     landmarks         |-> [positions |-> points],
     age               |-> age,
     gender            |-> gender,
     genderProbability |-> prob]

\* answers detectAllFaces may give for a face of the detection canvas
FullFaces ==
    { Face(Box(R(601, 2), Int2R(200), Int2R(201), Int2R(250)),
           R(63, 2), "male", R(4, 5),
           <<Pt(Int2R(350), R(521, 2)), Pt(Int2R(451), Int2R(262))>>),
      Face(Box(Int2R(622), Int2R(366), Int2R(402), Int2R(402)),
           Int2R(90), "female", R(111, 200),
           <<Pt(Int2R(700), Int2R(500)), Pt(Int2R(901), Int2R(503))>>) }

InsideCanvas(box, cv) ==
    /\ RLeq(Int2R(0), box.x) /\ RLeq(Int2R(0), box.y)
    /\ RLeq(RAdd(box.x, box.width), Int2R(cv.width))
    /\ RLeq(RAdd(box.y, box.height), Int2R(cv.height))

FullFacesIn(cv) == {f \in FullFaces : InsideCanvas(f.detection.box, cv)}

\* the lists detectAllFaces may resolve to
DetectionLists(cv) ==
    UNION {[1..n -> FullFacesIn(cv)] : n \in 0..MaxFaces}

\* answers detectSingleFace may give for a crop, in crop coordinates
Aged20 ==
    Face(Box(Int2R(21), Int2R(25), Int2R(190), Int2R(236)),
         Int2R(20), "male", R(4, 5),
         <<Pt(Int2R(70), Int2R(90)), Pt(Int2R(160), Int2R(92))>>)

Aged30 ==
    Face(Box(Int2R(48), Int2R(60), Int2R(205), Int2R(244)),
         Int2R(30), "female", R(9, 10),
         <<Pt(Int2R(98), Int2R(121)), Pt(Int2R(190), Int2R(123))>>)

Aged40 ==
    Face(Box(Int2R(90), Int2R(110), Int2R(198), Int2R(251)),
         Int2R(40), "male", R(7, 10),
         <<Pt(Int2R(140), Int2R(170)), Pt(Int2R(233), Int2R(171))>>)

Aged95 ==
    Face(Box(Int2R(33), Int2R(41), Int2R(180), Int2R(222)),
         R(191, 2), "female", R(3, 5),
         <<Pt(Int2R(80), Int2R(100)), Pt(Int2R(170), Int2R(104))>>)

\* the faces detectSingleFace may find in the crop of each padding
CropFaces == <<{Aged20, Aged95}, {Aged30}, {Aged40}>>

\* what detectSingleFace may resolve to for crop i
CropAnswers(i) == {NoFace} \cup CropFaces[i]

----------------------------------------------------------------------------
(* useFaceApi: model loading *)

NoError == ""

LoadErrorMessage ==
    "Failed to load face detection models. Please check your internet connection."

\* loadModels: Promise.all of the four loadFromUri calls resolved
LoadModelsResolve ==
    /\ isLoading
    /\ isLoaded' = TRUE
    /\ isLoading' = FALSE
    /\ UNCHANGED <<error, callVars, fnVars, serverVars, uiVars>>

LoadModelsRejectRetrying ==
    /\ isLoading
    /\ error' = LoadErrorMessage
    /\ isLoading' = TRUE
    /\ UNCHANGED <<isLoaded, callVars, fnVars, serverVars, uiVars>>

\* loadModels: one loadFromUri call rejected
LoadModelsReject ==
    /\ isLoading
    /\ error' = LoadErrorMessage
    /\ isLoading' = FALSE
    /\ UNCHANGED <<isLoaded, callVars, fnVars, serverVars, uiVars>>

----------------------------------------------------------------------------
(* useFaceApi.detectFaces as a sequence of steps between awaits *)

NotLoadedMessage == "Face-API models not loaded yet"

FailedMessage == "Failed to analyze faces in the image"

NoImage == Img(0, 0)

\* the head of the for loop with `results` pushed so far:
\* start the three crop inferences of the next face, or return
LoopHead(results, initial, cv) ==
    IF Len(results) < Len(initial)
    THEN /\ pc' = "crops"
         /\ crops' = Crops(initial[Len(results) + 1].rawBox, cv)
         /\ preds' = [i \in DOMAIN Paddings |-> Pending]
         /\ ensembleResults' = results
         /\ UNCHANGED returned
    ELSE /\ pc' = "returned"
         /\ crops' = <<>>
         /\ preds' = <<>>
         /\ ensembleResults' = results
         /\ returned' = results

\* detectFaces(imageElement, useEnsemble) up to its first await
DetectFacesCall(img, ens, ctxOk) ==
    /\ pc \in {"idle", "returned", "threw"}
    /\ image' = img
    /\ useEnsemble' = ens
    /\ detections' = <<>>
    /\ initialResults' = <<>>
    /\ crops' = <<>>
    /\ preds' = <<>>
    /\ ensembleResults' = <<>>
    /\ returned' = <<>>
    /\ IF ~isLoaded
       THEN /\ pc' = "threw"
            /\ thrown' = NotLoadedMessage
            /\ UNCHANGED <<scale, canvas>>
       ELSE /\ scale' = Scale(NaturalW(img))
            /\ canvas' = Canvas(img)
            /\ IF ctxOk
               THEN pc' = "detectAllFaces" /\ thrown' = ""
               ELSE pc' = "threw" /\ thrown' = FailedMessage
    /\ UNCHANGED <<hookVars, fnVars, serverVars, uiVars>>

\* detectAllFaces(...).withFaceLandmarks().withAgeAndGender() resolved to dets
DetectAllFacesResolve(dets) ==
    /\ pc = "detectAllFaces"
    /\ detections' = dets
    /\ LET initial == InitialResults(dets, InvScale(scale))
       IN  /\ initialResults' = initial
           /\ IF ~useEnsemble
              THEN /\ pc' = "returned"
                   /\ returned' = [k \in DOMAIN initial |-> NonEnsembleResult(initial[k])]
                   /\ UNCHANGED <<crops, preds, ensembleResults>>
              ELSE LoopHead(<<>>, initial, canvas)
    /\ UNCHANGED <<image, useEnsemble, scale, canvas, thrown, hookVars, fnVars, serverVars, uiVars>>

\* the detection chain rejected: caught and rethrown
DetectAllFacesReject ==
    /\ pc = "detectAllFaces"
    /\ pc' = "threw"
    /\ thrown' = FailedMessage
    /\ UNCHANGED <<image, useEnsemble, scale, canvas, detections, initialResults,
                   crops, preds, ensembleResults, returned, hookVars, fnVars, serverVars, uiVars>>

\* detectSingleFace of crop i resolved to res
CropResolve(i, res) ==
    /\ pc = "crops"
    /\ preds[i] = Pending
    /\ preds' = [preds EXCEPT ![i] = PredOf(res)]
    /\ UNCHANGED <<pc, image, useEnsemble, scale, canvas, detections, initialResults,
                   crops, ensembleResults, returned, thrown, hookVars, fnVars, serverVars, uiVars>>

\* detectSingleFace of crop i rejected: Promise.all rejects, caught and rethrown
CropReject(i) ==
    /\ pc = "crops"
    /\ preds[i] = Pending
    /\ pc' = "threw"
    /\ thrown' = FailedMessage
    /\ UNCHANGED <<image, useEnsemble, scale, canvas, detections, initialResults,
                   crops, preds, ensembleResults, returned, hookVars, fnVars, serverVars, uiVars>>

\* Promise.race in place of Promise.all: the loop goes on at the first crop
CropsDoneAtFirst ==
    /\ pc = "crops"
    /\ \E i \in DOMAIN preds : preds[i] # Pending
    /\ LoopHead(Append(ensembleResults,
                       EnsembleFace(initialResults[Len(ensembleResults) + 1], preds)),
                initialResults, canvas)
    /\ UNCHANGED <<image, useEnsemble, scale, canvas, detections, initialResults,
                   thrown, hookVars, fnVars, serverVars, uiVars>>

\* Promise.all resolved: push the result of this face and go round the loop
CropsDone ==
    /\ pc = "crops"
    /\ \A i \in DOMAIN preds : preds[i] # Pending
    /\ LoopHead(Append(ensembleResults,
                       EnsembleFace(initialResults[Len(ensembleResults) + 1], preds)),
                initialResults, canvas)
    /\ UNCHANGED <<image, useEnsemble, scale, canvas, detections, initialResults,
                   thrown, hookVars, fnVars, serverVars, uiVars>>

----------------------------------------------------------------------------
(* The hook and one detectFaces call at a time *)

NoArg == [kind |-> "none"]

\* JavaScript and JSON values that are not numbers of the detector, by type
Missing == [kind |-> "undefined"]
Str(s) == [kind |-> "string", v |-> s]
\* a string given by its characters
Chars(cs) == [kind |-> "chars", cs |-> cs]
Num(n) == [kind |-> "number", n |-> n]
Json(v) == [kind |-> "json", json |-> v]
NaN == [kind |-> "NaN"]

NoResponse == [kind |-> "none"]

\* a server process without DATABASE_URL that has served no request
ServerInit ==
    /\ env = Missing
    /\ storage = "MemStorage"
    /\ mem = [users |-> <<>>, analyses |-> <<>>]
    /\ database = [users |-> {}, faceAnalyses |-> {}]
    /\ now = 0
    /\ issued = 0
    /\ response = NoResponse

\* the FaceAnalysis component after its first render
UiInit ==
    /\ uploadedImage = Null
    /\ imageDimensions = Null
    /\ detectedFaces = <<>>
    /\ analysisStats = Null
    /\ isAnalyzing = FALSE
    /\ analysisProgress = 0
    /\ imageName = ""
    /\ runs = <<>>
    /\ toasts = <<>>
    /\ posted = <<>>
    /\ localHistory = <<>>

\* the hook after its first render, no detectFaces call made yet
HookInit ==
    /\ isLoaded = FALSE
    /\ isLoading = TRUE
    /\ error = NoError
    /\ pc = "idle"
    /\ image = NoImage
    /\ useEnsemble = TRUE
    /\ scale = Int2R(1)
    /\ canvas = [width |-> 0, height |-> 0]
    /\ detections = <<>>
    /\ initialResults = <<>>
    /\ crops = <<>>
    /\ preds = <<>>
    /\ ensembleResults = <<>>
    /\ returned = <<>>
    /\ thrown = ""

Init ==
    /\ HookInit
    /\ ServerInit
    /\ UiInit
    /\ arg = NoArg
    /\ out = NoArg

Next ==
    \/ LoadModelsResolve
    \/ LoadModelsReject
    \/ \E img \in Images, ens \in BOOLEAN, ctxOk \in BOOLEAN : DetectFacesCall(img, ens, ctxOk)
    \/ \E dets \in DetectionLists(canvas) : DetectAllFacesResolve(dets)
    \/ DetectAllFacesReject
    \/ \E i \in DOMAIN Paddings : \E res \in CropAnswers(i) : CropResolve(i, res)
    \/ \E i \in DOMAIN Paddings : CropReject(i)
    \/ CropsDone

Spec == Init /\ [][Next]_vars

----------------------------------------------------------------------------
(* calculateAnalysisStats *)

RECURSIVE SumCombinedFloor(_)
SumCombinedFloor(faces) ==
    IF faces = <<>> THEN 0
    ELSE SumCombinedFloor(SubSeq(faces, 1, Len(faces) - 1))
         + ((faces[Len(faces)].ageConfidence + faces[Len(faces)].genderConfidence) \div 2)

RECURSIVE SumCombined(_)
\* faces.reduce((sum, face) => sum + Math.round((ageConfidence + genderConfidence) / 2), 0)
SumCombined(faces) ==
    IF faces = <<>> THEN 0
    ELSE SumCombined(SubSeq(faces, 1, Len(faces) - 1))
         + MathRound(R(faces[Len(faces)].ageConfidence
                       + faces[Len(faces)].genderConfidence, 2))

\* (x).toFixed(1) as <<integer part, first decimal>>
ToFixed1(x) ==
    LET tenths == MathRound(RMul(x, Int2R(10)))
    IN  <<tenths \div 10, tenths % 10>>

CalculateAnalysisStatsFloor(faces, processingTime, dimensions) ==
    LET totalFaces == Len(faces)
    IN  [totalFaces     |-> totalFaces,
         avgConfidence  |-> IF totalFaces > 0
                            THEN MathRound(R(SumCombinedFloor(faces), totalFaces))
                            ELSE 0,
         processingTime |-> <<ToFixed1(R(processingTime, 1000)), "s">>,
         imageSize      |-> <<dimensions.width, "x", dimensions.height>>]

CalculateAnalysisStats(faces, processingTime, dimensions) ==
    LET totalFaces == Len(faces)
    IN  [totalFaces     |-> totalFaces,
         avgConfidence  |-> IF totalFaces > 0
                            THEN MathRound(R(SumCombined(faces), totalFaces))
                            ELSE 0,
         processingTime |-> <<ToFixed1(R(processingTime, 1000)), "s">>,
         imageSize      |-> <<dimensions.width, "x", dimensions.height>>]

----------------------------------------------------------------------------
(* The numeric steps applied on their own, over wider inputs *)

CurveAges == {R(k, AgeDen) : k \in (0 - 20 * AgeDen)..(MaxCurveAge * AgeDen)}

\* lines 187/195 and 265/271 for one age
ApplyCurve ==
    /\ arg.kind = "age"
    /\ out = NoArg
    /\ out' = [kind     |-> "confidence",
               initial  |-> MathRound(InitialAgeConfidence(arg.age)),
               ensemble |-> MathRound(EnsembleAgeConfidence(arg.age))]
    /\ UNCHANGED <<arg, hookVars, callVars, serverVars, uiVars>>

InitCurve ==
    /\ HookInit
    /\ ServerInit
    /\ UiInit
    /\ arg \in {[kind |-> "age", age |-> a] : a \in CurveAges}
    /\ out = NoArg

SpecCurve == InitCurve /\ [][ApplyCurve]_vars

ScaleImages ==
    {Img(w, h) : w \in 1..MaxImageWidth, h \in {1, 384, 1536}}

\* lines 161-168 for one image
ApplyScale ==
    /\ arg.kind = "image"
    /\ out = NoArg
    /\ out' = [kind   |-> "canvas",
               scale  |-> Scale(NaturalW(arg.image)),
               canvas |-> Canvas(arg.image)]
    /\ UNCHANGED <<arg, hookVars, callVars, serverVars, uiVars>>

InitScale ==
    /\ HookInit
    /\ ServerInit
    /\ UiInit
    /\ arg \in {[kind |-> "image", image |-> img] : img \in ScaleImages}
    /\ out = NoArg

SpecScale == InitScale /\ [][ApplyScale]_vars

\* left edges and widths (top edges and heights) of face boxes
CropOrigins == {Int2R(0), R(1, 2), Int2R(10), R(601, 2), Int2R(622), Int2R(900)}

CropExtents == {Int2R(2), Int2R(100), R(247, 2), Int2R(201), Int2R(402)}

CropCanvases == {Canvas(img) : img \in Images}

CropInputs ==
    {[kind |-> "box", rawBox |-> Box(x, y, w, h), canvas |-> cv, pad |-> i] :
        x \in CropOrigins, y \in CropOrigins, w \in CropExtents, h \in CropExtents,
        cv \in CropCanvases, i \in DOMAIN Paddings}

\* lines 218-224 for one face box and one padding
ApplyCrop ==
    /\ arg.kind = "box"
    /\ out = NoArg
    /\ out' = [kind |-> "crop", crop |-> Crop(arg.rawBox, arg.canvas, Paddings[arg.pad])]
    /\ UNCHANGED <<arg, hookVars, callVars, serverVars, uiVars>>

InitCrop ==
    /\ HookInit
    /\ ServerInit
    /\ UiInit
    /\ arg \in {a \in CropInputs : InsideCanvas(a.rawBox, a.canvas)}
    /\ out = NoArg

SpecCrop == InitCrop /\ [][ApplyCrop]_vars

StatFaces ==
    {[ageConfidence |-> a, genderConfidence |-> g] :
        a \in {70, 75, 90}, g \in {0, 56, 85, 100}}

StatInputs ==
    {[kind |-> "faces", faces |-> fs, processingTime |-> t,
      imageDimensions |-> [width |-> 512, height |-> 384]] :
        fs \in UNION {[1..n -> StatFaces] : n \in 0..MaxStatFaces},
        t \in {49, 1250}}

\* calculateAnalysisStats(faces, processingTime, imageDimensions)
ApplyStats ==
    /\ arg.kind = "faces"
    /\ out = NoArg
    /\ out' = [kind  |-> "stats",
               stats |-> CalculateAnalysisStats(arg.faces, arg.processingTime,
                                                arg.imageDimensions)]
    /\ UNCHANGED <<arg, hookVars, callVars, serverVars, uiVars>>

InitStats ==
    /\ HookInit
    /\ ServerInit
    /\ UiInit
    /\ arg \in StatInputs
    /\ out = NoArg

SpecStats == InitStats /\ [][ApplyStats]_vars

----------------------------------------------------------------------------
(* Properties of detectFaces *)

\* the crops of the current face that gave a prediction
ValidCrops == {i \in DOMAIN preds : preds[i].kind = "pred"}

FirstValidCrop == CHOOSE i \in ValidCrops : \A j \in ValidCrops : i <= j

CropAge(i) == IF i \in ValidCrops THEN preds[i].age ELSE Int2R(0)

CropProbability(i) == IF i \in ValidCrops THEN preds[i].genderProbability ELSE Int2R(0)

\* this step pushes the result of the current face
PushesResult == pc = "crops" /\ Len(ensembleResults') = Len(ensembleResults) + 1

\* C1: when at least one crop of a face gave a prediction, the pushed result
\* has age = round(mean age of the valid crops), genderConfidence =
\* round(100 * mean gender probability of the valid crops) and the gender of
\* the first valid crop; the divisor is the number of valid crops.
C1_EnsembleAveragesValidCrops ==
    [][ (PushesResult /\ ValidCrops # {}) =>
          LET new    == ensembleResults'[Len(ensembleResults')]
              n      == Cardinality(ValidCrops)
              ageSum == RAdd(RAdd(CropAge(1), CropAge(2)), CropAge(3))
              prSum  == RAdd(RAdd(CropProbability(1), CropProbability(2)),
                             CropProbability(3))
          IN  /\ new.age = MathRound(R(ageSum.n, ageSum.d * n))
              /\ new.genderConfidence = MathRound(R(100 * prSum.n, prSum.d * n))
              /\ new.gender = preds[FirstValidCrop].gender ]_vars

\* two crops (ages 20 and 30, probabilities 0.8 and 0.9) were averaged, the
\* third gave no detection
C1_Witness ==
    \E k \in DOMAIN ensembleResults :
        /\ ensembleResults[k].age = 25
        /\ ensembleResults[k].genderConfidence = 85
        /\ ensembleResults[k].gender = "male"

\* C2: when no crop of a face gave a prediction, the pushed result is the
\* result the non-ensemble path gives for that face.
C2_FallbackEqualsNonEnsemble ==
    [][ (PushesResult /\ ValidCrops = {}) =>
          ensembleResults'[Len(ensembleResults')] =
              NonEnsembleResult(initialResults[Len(ensembleResults')]) ]_vars

\* a face aged 31.5 by the full-image detection was returned by the ensemble
\* path with that age rounded: none of its crops gave a prediction
C2_Witness ==
    /\ pc = "returned"
    /\ useEnsemble
    /\ \E k \in DOMAIN returned :
        /\ returned[k].age = 32
        /\ returned[k].ageConfidence = 89
        /\ returned[k].genderConfidence = 80

AllResults ==
    {initialResults[k] : k \in DOMAIN initialResults}
        \cup {ensembleResults[k] : k \in DOMAIN ensembleResults}
        \cup {returned[k] : k \in DOMAIN returned}

\* C3: every ageConfidence computed by detectFaces lies between 70 and 95.
C3_AgeConfidenceWithinBounds ==
    \A r \in AllResults : 70 <= r.ageConfidence /\ r.ageConfidence <= 95

\* an averaged age of 96 was returned, for which the curve is floored
C3_Witness ==
    /\ pc = "returned"
    /\ \E k \in DOMAIN returned : returned[k].age = 96 /\ returned[k].ageConfidence = 70

\* res is the detection det mapped from the detection canvas to the image
InOriginalSpace(res, det) ==
    /\ REq(RMul(res.box.x, scale), det.detection.box.x)
    /\ REq(RMul(res.box.y, scale), det.detection.box.y)
    /\ REq(RMul(res.box.width, scale), det.detection.box.width)
    /\ REq(RMul(res.box.height, scale), det.detection.box.height)
    /\ DOMAIN res.landmarks = DOMAIN det.landmarks.positions
    /\ \A i \in DOMAIN res.landmarks :
        /\ REq(RMul(res.landmarks[i].x, scale), det.landmarks.positions[i].x)
        /\ REq(RMul(res.landmarks[i].y, scale), det.landmarks.positions[i].y)

\* |a - b| <= 1
WithinOne(a, b) == RLeq(MathAbs(RSub(a, b)), Int2R(1))

HalfMagnitude(res, det) ==
    /\ WithinOne(res.box.x, RDivInt(det.detection.box.x, 2))
    /\ WithinOne(res.box.y, RDivInt(det.detection.box.y, 2))
    /\ WithinOne(res.box.width, RDivInt(det.detection.box.width, 2))
    /\ WithinOne(res.box.height, RDivInt(det.detection.box.height, 2))

\* C7: every box and landmark of a result, pushed or returned, is the
\* detection-canvas value divided by the scale the canvas was built with;
\* with scale 2 the box is half the canvas box.
C7_ResultsInOriginalSpace ==
    /\ pc \in {"detectAllFaces", "crops", "returned"} =>
          canvas.width = MathRound(RMul(Int2R(NaturalW(image)), scale))
    /\ \A k \in DOMAIN ensembleResults :
          InOriginalSpace(ensembleResults[k], detections[k])
    /\ \A k \in DOMAIN returned :
        /\ InOriginalSpace(returned[k], detections[k])
        /\ REq(scale, Int2R(2)) => HalfMagnitude(returned[k], detections[k])

\* faces of a 512 pixel wide image (scale 2) were returned
C7_Witness ==
    /\ pc = "returned"
    /\ returned # <<>>
    /\ REq(scale, Int2R(2))
    /\ canvas.width = 1024

\* C9: the id, box and landmarks of every result of the ensemble loop are
\* those of the initial result of the same face.
C9_BoxFromInitialDetection ==
    \A k \in DOMAIN ensembleResults :
        /\ ensembleResults[k].id = initialResults[k].id
        /\ ensembleResults[k].box = initialResults[k].box
        /\ ensembleResults[k].landmarks = initialResults[k].landmarks

\* a face whose crops were averaged (age 25 comes only from crops) on an
\* upscaled canvas, where crop, canvas and image coordinates all differ
C9_Witness ==
    /\ ~REq(scale, Int2R(1))
    /\ \E k \in DOMAIN ensembleResults :
        ensembleResults[k].age = 25 /\ ensembleResults[k].genderConfidence = 85

----------------------------------------------------------------------------
(* Properties of the numeric steps *)

CurveApplied == out.kind = "confidence"

\* the statement that the curve gives 90 at age 30 and 70 at ages 0 and 90
C4_CurveFloorAtZero ==
    CurveApplied =>
        /\ REq(arg.age, Int2R(30)) => out.initial = 90 /\ out.ensemble = 90
        /\ REq(arg.age, Int2R(0)) => out.initial = 70 /\ out.ensemble = 70
        /\ REq(arg.age, Int2R(90)) => out.initial = 70 /\ out.ensemble = 70

\* C4 (amended): the curve gives 90 at age 30, the floor 70 at age 90, and
\* 75 (= 90 - 0.5 * 30, above the floor) at age 0.
C4_CurveValues ==
    CurveApplied =>
        /\ REq(arg.age, Int2R(30)) => out.initial = 90 /\ out.ensemble = 90
        /\ REq(arg.age, Int2R(0)) => out.initial = 75 /\ out.ensemble = 75
        /\ REq(arg.age, Int2R(90)) => out.initial = 70 /\ out.ensemble = 70

\* the curve was applied to age 0
C4_Witness == CurveApplied /\ REq(arg.age, Int2R(0)) /\ out.initial = 75

CropApplied == out.kind = "crop"

\* C5: the rounded crop rectangle lies within the canvas.
C5_CropWithinCanvas ==
    CropApplied =>
        /\ out.crop.x >= 0
        /\ out.crop.y >= 0
        /\ out.crop.x + out.crop.w <= arg.canvas.width
        /\ out.crop.y + out.crop.h <= arg.canvas.height

\* the interval [lo, lo + len] padded by p * len on both sides, cut to [0, limit]
PaddedLow(lo, len, p) == MathMax(Int2R(0), RSub(lo, RMul(len, p)))

PaddedHigh(lo, len, p, limit) ==
    MathMin(Int2R(limit), RAdd(RAdd(lo, len), RMul(len, p)))

\* C6: the crop rectangle is, within one pixel per edge, the face box grown by
\* p * width left and right and p * height above and below, cut to the canvas.
C6_CropIsPaddedBoxCutToCanvas ==
    CropApplied =>
        LET b == arg.rawBox
            p == Paddings[arg.pad]
            c == out.crop
        IN  /\ WithinOne(Int2R(c.x), PaddedLow(b.x, b.width, p))
            /\ WithinOne(Int2R(c.y), PaddedLow(b.y, b.height, p))
            /\ WithinOne(Int2R(c.x + c.w),
                         PaddedHigh(b.x, b.width, p, arg.canvas.width))
            /\ WithinOne(Int2R(c.y + c.h),
                         PaddedHigh(b.y, b.height, p, arg.canvas.height))

ScaleApplied == out.kind = "canvas"

\* C8: the scale is max(1, 1024 / width), so at least 1, and the canvas is at
\* least as wide and as high as the image.
C8_NeverDownscales ==
    ScaleApplied =>
        LET w == arg.image.naturalWidth
            h == arg.image.naturalHeight
        IN  /\ RLeq(Int2R(1), out.scale)
            /\ w < TargetWidth => out.scale.n * w = TargetWidth * out.scale.d
            /\ w >= TargetWidth => REq(out.scale, Int2R(1))
            /\ out.canvas.width >= w
            /\ out.canvas.height >= h

\* an image wider than the target width was given: scale 1
C8_Witness ==
    /\ ScaleApplied
    /\ arg.image.naturalWidth > TargetWidth
    /\ out.canvas.width = arg.image.naturalWidth

StatsApplied == out.kind = "stats"

RECURSIVE CombinedTotal(_, _)
\* sum over the first k faces of (ageConfidence + genderConfidence) / 2,
\* each rounded to the nearest integer, halves up
CombinedTotal(fs, k) ==
    IF k = 0 THEN 0
    ELSE CombinedTotal(fs, k - 1)
         + ((fs[k].ageConfidence + fs[k].genderConfidence + 1) \div 2)

\* C10: totalFaces is the number of faces; avgConfidence is 0 for no faces
\* and otherwise the integer nearest (halves up) to the mean over the faces
\* of round((ageConfidence + genderConfidence) / 2).
C10_StatsAverage ==
    StatsApplied =>
        LET n     == Len(arg.faces)
            total == CombinedTotal(arg.faces, n)
            avg   == out.stats.avgConfidence
        IN  /\ out.stats.totalFaces = n
            /\ n = 0 => avg = 0
            /\ n > 0 => 2 * n * avg - n <= 2 * total /\ 2 * total < 2 * n * avg + n

\* stats of two faces whose combined confidences (63 and 88) average to 75.5
C10_Witness ==
    /\ StatsApplied
    /\ Len(arg.faces) = 2
    /\ arg.faces[1] = [ageConfidence |-> 70, genderConfidence |-> 56]
    /\ arg.faces[2] = [ageConfidence |-> 90, genderConfidence |-> 85]
    /\ out.stats.avgConfidence = 76

----------------------------------------------------------------------------
(* The server: db.ts, the storage classes and the /api/analyses routes *)

MaxAnalyses == 2
MaxTime == 1

\* a value the code tests with `if (v)`, `v ? a : b` or `v || b`
Truthy(v) ==
    CASE v.kind = "undefined" -> FALSE
      [] v.kind = "null" -> FALSE
      [] v.kind = "NaN" -> FALSE
      [] v.kind = "string" -> v.v # ""
      [] v.kind = "chars" -> v.cs # <<>>
      [] v.kind = "number" -> v.n # 0
      [] OTHER -> TRUE

\* db.ts: db is set only inside `if (process.env.DATABASE_URL)`
Db(e) == IF Truthy(e) THEN [kind |-> "drizzle", url |-> e.v] ELSE Null

StorageNeverDb(e) == "MemStorage"

\* export const storage = db ? new DbStorage() : new MemStorage()
StorageOf(e) == IF Truthy(Db(e)) THEN "DbStorage" ELSE "MemStorage"

\* randomUUID() and gen_random_uuid(): the k-th identifier generated
Uuid(k) == <<"uuid", k>>

DigitValue(c) ==
    CASE c = "0" -> 0 [] c = "1" -> 1 [] c = "2" -> 2 [] c = "3" -> 3
      [] c = "4" -> 4 [] c = "5" -> 5 [] c = "6" -> 6 [] c = "7" -> 7
      [] c = "8" -> 8 [] c = "9" -> 9 [] OTHER -> 0 - 1

RECURSIVE LeadingDigits(_)
\* the longest prefix of s made of decimal digits
LeadingDigits(s) ==
    IF s = <<>> \/ DigitValue(s[1]) < 0 THEN <<>>
    ELSE <<s[1]>> \o LeadingDigits(Tail(s))

RECURSIVE DigitsValue(_)
DigitsValue(ds) ==
    IF ds = <<>> THEN 0
    ELSE 10 * DigitsValue(SubSeq(ds, 1, Len(ds) - 1)) + DigitValue(ds[Len(ds)])

\* parseInt(s) of a string given as its characters: sign, digits, rest ignored
ParseInt(s) ==
    LET signed == s # <<>> /\ s[1] \in {"-", "+"}
        digits == LeadingDigits(IF signed THEN Tail(s) ELSE s)
    IN  IF digits = <<>> THEN NaN
        ELSE IF signed /\ s[1] = "-" THEN Num(0 - DigitsValue(digits))
        ELSE Num(DigitsValue(digits))

\* Math.max and Math.min of two integers
IntMax(a, b) == IF a >= b THEN a ELSE b
IntMin(a, b) == IF a <= b THEN a ELSE b

\* Array.prototype.slice(0, end)
Slice0(list, end) ==
    LET len == Len(list)
        k == CASE end.kind = "NaN" -> 0
               [] end.n < 0 -> IntMax(len + end.n, 0)
               [] OTHER -> IntMin(end.n, len)
    IN  SubSeq(list, 1, k)

\* where a stable descending sort puts x among the already sorted elements
InsertByTimestamp(sorted, x) ==
    LET before == {i \in 1..Len(sorted) :
                      sorted[i].analysisTimestamp >= x.analysisTimestamp}
        k == IF before = {} THEN 0
             ELSE CHOOSE i \in before : \A j \in before : j <= i
    IN  SubSeq(sorted, 1, k) \o <<x>> \o SubSeq(sorted, k + 1, Len(sorted))

RECURSIVE SortNewestFirst(_)
\* .sort((a, b) => b.analysisTimestamp.getTime() - a.analysisTimestamp.getTime())
SortNewestFirst(list) ==
    IF list = <<>> THEN <<>>
    ELSE InsertByTimestamp(SortNewestFirst(SubSeq(list, 1, Len(list) - 1)),
                           list[Len(list)])

SchemaIgnoresFileName(body) ==
    /\ body.imageDimensions.kind = "json"
    /\ body.detectedFaces.kind = "json"
    /\ body.processingTime.kind \in {"undefined", "null", "string"}

\* insertFaceAnalysisSchema.parse(body) does not throw
SchemaAccepts(body) ==
    /\ body.imageFileName.kind = "string"
    /\ body.imageDimensions.kind = "json"
    /\ body.detectedFaces.kind = "json"
    /\ body.processingTime.kind \in {"undefined", "null", "string"}

ValidationMessage == "ZodError"

DatabaseMessage == "database error"

Thrown(message) == [kind |-> "throw", message |-> message]

Returned(value) == [kind |-> "return", value |-> value]

MemCreateFaceAnalysisOverwrite(m, analysis, id, date) ==
    LET faceAnalysis ==
            [id                |-> id,
             imageFileName     |-> analysis.imageFileName,
             imageDimensions   |-> analysis.imageDimensions,
             detectedFaces     |-> analysis.detectedFaces,
             analysisTimestamp |-> date,
             processingTime    |-> IF Truthy(analysis.processingTime)
                                   THEN analysis.processingTime ELSE Null]
    IN  [state  |-> [m EXCEPT !.analyses = <<faceAnalysis>>],
         result |-> Returned(faceAnalysis)]

\* MemStorage.createFaceAnalysis, with the UUID and the Date it obtains
MemCreateFaceAnalysis(m, analysis, id, date) ==
    LET faceAnalysis ==
            [id                |-> id,
             imageFileName     |-> analysis.imageFileName,
             imageDimensions   |-> analysis.imageDimensions,
             detectedFaces     |-> analysis.detectedFaces,
             analysisTimestamp |-> date,
             processingTime    |-> IF Truthy(analysis.processingTime)
                                   THEN analysis.processingTime ELSE Null]
    IN  [state  |-> [m EXCEPT !.analyses = Append(@, faceAnalysis)],
         result |-> Returned(faceAnalysis)]

\* MemStorage.getFaceAnalyses
MemGetFaceAnalyses(m, limit) ==
    Returned(Slice0(SortNewestFirst(m.analyses), limit))

\* MemStorage.getFaceAnalysis: this.analyses.get(id)
MemGetFaceAnalysis(m, id) ==
    LET found == {i \in 1..Len(m.analyses) : m.analyses[i].id = id}
    IN  Returned(IF found = {} THEN Missing
                 ELSE m.analyses[CHOOSE i \in found : TRUE])

\* DbStorage.createFaceAnalysis: insert ... returning, the defaults filled in
\* by the database; ok is whether the statement succeeds
DbCreateFaceAnalysis(db, d, analysis, id, date, ok) ==
    LET row ==
            [id                |-> id,
             imageFileName     |-> analysis.imageFileName,
             imageDimensions   |-> analysis.imageDimensions,
             detectedFaces     |-> analysis.detectedFaces,
             analysisTimestamp |-> date,
             processingTime    |-> IF analysis.processingTime = Missing
                                   THEN Null ELSE analysis.processingTime]
    IN  IF ~Truthy(db)
        THEN [state |-> d, result |-> Thrown("Database not available")]
        ELSE IF ~ok
        THEN [state |-> d, result |-> Thrown(DatabaseMessage)]
        ELSE [state  |-> [d EXCEPT !.faceAnalyses = @ \cup {row}],
              result |-> Returned(row)]

\* the orders in which ORDER BY analysis_timestamp DESC may deliver the rows:
\* rows with equal timestamps come in any order
DbOrderings(rows) ==
    {order \in [1..Cardinality(rows) -> rows] :
        /\ \A i, j \in DOMAIN order : i # j => order[i] # order[j]
        /\ \A i, j \in DOMAIN order :
              i < j => order[i].analysisTimestamp >= order[j].analysisTimestamp}

\* DbStorage.getFaceAnalyses; LIMIT rejects a negative or non-numeric count
DbGetFaceAnalyses(db, d, limit, ok, order) ==
    IF ~Truthy(db) THEN Returned(<<>>)
    ELSE IF ~ok \/ limit.kind = "NaN" THEN Thrown(DatabaseMessage)
    ELSE IF limit.n < 0 THEN Thrown(DatabaseMessage)
    ELSE Returned(SubSeq(order, 1, IntMin(limit.n, Len(order))))

\* DbStorage.getFaceAnalysis
DbGetFaceAnalysis(db, d, id, ok) ==
    LET result == {row \in d.faceAnalyses : row.id = id}
    IN  IF ~Truthy(db) THEN Returned(Missing)
        ELSE IF ~ok THEN Thrown(DatabaseMessage)
        ELSE Returned(IF result = {} THEN Missing
                      ELSE CHOOSE row \in result : TRUE)

\* storage.createFaceAnalysis of the instance in use
CreateFaceAnalysis(analysis, ok) ==
    IF storage = "MemStorage"
    THEN LET r == MemCreateFaceAnalysis(mem, analysis, Uuid(issued + 1), now)
         IN  [mem |-> r.state, database |-> database, result |-> r.result]
    ELSE LET r == DbCreateFaceAnalysis(Db(env), database, analysis,
                                       Uuid(issued + 1), now, ok)
         IN  [mem |-> mem, database |-> r.state, result |-> r.result]

\* storage.getFaceAnalyses of the instance in use
GetFaceAnalyses(limit, ok, order) ==
    IF storage = "MemStorage" THEN MemGetFaceAnalyses(mem, limit)
    ELSE DbGetFaceAnalyses(Db(env), database, limit, ok, order)

\* storage.getFaceAnalysis of the instance in use
GetFaceAnalysis(id, ok) ==
    IF storage = "MemStorage" THEN MemGetFaceAnalysis(mem, id)
    ELSE DbGetFaceAnalysis(Db(env), database, id, ok)

\* res.status(...).json(...) for the request req
Reply(req, status, body) == [req |-> req, status |-> status, body |-> body]

ErrorBody(message) == [error |-> message]

\* the response of GET /api/analyses/:id to what storage.getFaceAnalysis did
AnalysisReplyNoCheck(req, result) ==
    IF result.kind = "throw" THEN Reply(req, 500, ErrorBody(result.message))
    ELSE Reply(req, 200, result.value)

AnalysisReply(req, result) ==
    IF result.kind = "throw" THEN Reply(req, 500, ErrorBody(result.message))
    ELSE IF result.value = Missing
    THEN Reply(req, 404, ErrorBody("Analysis not found"))
    ELSE Reply(req, 200, result.value)

\* the clock moves on by a millisecond
Tick ==
    /\ now < MaxTime
    /\ now' = now + 1
    /\ UNCHANGED <<env, storage, mem, database, issued, response>>
    /\ UNCHANGED <<hookVars, callVars, fnVars, uiVars>>

\* app.post("/api/analyses"): any exception is answered with 400
PostAnalyses(body, ok) ==
    LET req == [method |-> "POST", path |-> "/api/analyses", body |-> body]
    IN  /\ IF ~SchemaAccepts(body)
           THEN /\ response' = Reply(req, 400, ErrorBody(ValidationMessage))
                /\ UNCHANGED <<mem, database, issued>>
           ELSE LET r == CreateFaceAnalysis(body, ok)
                IN  /\ issued < MaxAnalyses
                    /\ mem' = r.mem
                    /\ database' = r.database
                    /\ issued' = IF r.result.kind = "throw" THEN issued
                                 ELSE issued + 1
                    /\ response' =
                          IF r.result.kind = "throw"
                          THEN Reply(req, 400, ErrorBody(r.result.message))
                          ELSE Reply(req, 200, r.result.value)
        /\ UNCHANGED <<env, storage, now>>
        /\ UNCHANGED <<hookVars, callVars, fnVars, uiVars>>

\* app.get("/api/analyses"); query is req.query.limit
GetAnalyses(query, ok, order) ==
    LET req == [method |-> "GET", path |-> "/api/analyses", limit |-> query]
        limit == IF Truthy(query) THEN ParseInt(query.cs) ELSE Num(10)
        analyses == GetFaceAnalyses(limit, ok, order)
    IN  /\ response' =
              IF analyses.kind = "throw"
              THEN Reply(req, 500, ErrorBody(analyses.message))
              ELSE Reply(req, 200, analyses.value)
        /\ UNCHANGED <<env, storage, mem, database, now, issued>>
        /\ UNCHANGED <<hookVars, callVars, fnVars, uiVars>>

\* app.get("/api/analyses/:id")
GetAnalysis(id, ok) ==
    LET req == [method |-> "GET", path |-> "/api/analyses/:id", id |-> id]
    IN  /\ response' = AnalysisReply(req, GetFaceAnalysis(id, ok))
        /\ UNCHANGED <<env, storage, mem, database, now, issued>>
        /\ UNCHANGED <<hookVars, callVars, fnVars, uiVars>>

\* values of DATABASE_URL at process start
Envs == {Missing, Str(""), Str("postgres://db")}

Dims512 == Json([width |-> 512, height |-> 384])

Body(fileName, dimensions, faces, time) ==
    [imageFileName   |-> fileName,
     imageDimensions |-> dimensions,
     detectedFaces   |-> faces,
     processingTime  |-> time]

\* request bodies, well-formed and not
Bodies ==
    {Body(Str("a.png"), Dims512, Json(<<>>), Str("1.25s")),
     Body(Str("a.png"), Dims512, Json(<<>>), Str("")),
     Body(Str("a.png"), Dims512, Json(<<>>), Missing),
     Body(Str("a.png"), Dims512, Json(<<>>), Num(3)),
     Body(Num(5), Dims512, Json(<<>>), Str("1.25s")),
     Body(Str("a.png"), Missing, Json(<<>>), Str("1.25s")),
     Body(Missing, Missing, Missing, Missing)}

\* values of the limit query parameter
Limits ==
    {Missing, Chars(<<>>), Chars(<<"0">>), Chars(<<"1">>),
     Chars(<<"-", "1">>), Chars(<<"a", "l", "l">>)}

\* identifiers a client may ask for, generated already or not
Ids == {Uuid(k) : k \in 0..MaxAnalyses}

\* whether a statement sent to the database succeeds; the maps never fail
Outcomes == IF storage = "DbStorage" THEN BOOLEAN ELSE {TRUE}

InitServer ==
    /\ HookInit
    /\ UiInit
    /\ arg = NoArg
    /\ out = NoArg
    /\ env \in Envs
    /\ storage = StorageOf(env)
    /\ mem = [users |-> <<>>, analyses |-> <<>>]
    /\ database = [users |-> {}, faceAnalyses |-> {}]
    /\ now = 0
    /\ issued = 0
    /\ response = NoResponse

NextServer ==
    \/ Tick
    \/ \E body \in Bodies, ok \in Outcomes : PostAnalyses(body, ok)
    \/ \E query \in Limits, ok \in Outcomes :
          \E order \in DbOrderings(database.faceAnalyses) :
             GetAnalyses(query, ok, order)
    \/ \E id \in Ids, ok \in Outcomes : GetAnalysis(id, ok)

SpecServer == InitServer /\ [][NextServer]_vars

----------------------------------------------------------------------------
(* Properties of the routes *)

\* the identifiers returned by the creates made so far
CreatedIds == {Uuid(k) : k \in 1..issued}

\* the last request was served by the route of the given method and path
Served(method, path) ==
    /\ response # NoResponse
    /\ response.req.method = method
    /\ response.req.path = path

\* C11: GET /api/analyses/:id for an id that no create has returned is
\* answered with 404 and {error: "Analysis not found"}, whatever was created
\* or read before; the only other answer is 500 with an error body, and only
\* when the database statement failed.
C11_UnknownIdNotFound ==
    (Served("GET", "/api/analyses/:id") /\ response.req.id \notin CreatedIds)
    => \/ /\ response.status = 404
          /\ response.body = [error |-> "Analysis not found"]
       \/ /\ response.status = 500
          /\ storage = "DbStorage"
          /\ response.body = [error |-> DatabaseMessage]

C11_Witness ==
    /\ Served("GET", "/api/analyses/:id")
    /\ issued = 1
    /\ Len(mem.analyses) = 1
    /\ response.req.id = Uuid(2)
    /\ response.status = 404

\* the number N a client asks for with the limit query parameter
RequestedLimit(query) ==
    IF query = Missing \/ query = Chars(<<>>) THEN Num(10) ELSE ParseInt(query.cs)

\* the identifiers of the n records created last
MostRecentIds(n) == {Uuid(k) : k \in (issued - n + 1)..issued}

\* C12: GET /api/analyses?limit=N returns at most N records for every number
\* N a client can supply (at most 10 without the parameter), and they are
\* exactly the min(N, total) records created last.  A negative N is read as
\* asking for no record.
C12_AtMostLimitMostRecent ==
    (/\ Served("GET", "/api/analyses")
     /\ response.status = 200
     /\ RequestedLimit(response.req.limit) # NaN)
    => LET N == IntMax(RequestedLimit(response.req.limit).n, 0)
           returnedIds == {response.body[i].id : i \in DOMAIN response.body}
       IN  /\ Len(response.body) <= N
           /\ Cardinality(returnedIds) = Len(response.body)
           /\ returnedIds = MostRecentIds(IntMin(N, issued))

\* the position of a record in the order of creation
CreationIndex(record) == record.id[2]

\* C13: the list returned by GET /api/analyses is ordered newest first: of
\* two returned records the one created later comes first, also when both
\* creates read the same clock value.
C13_NewestFirst ==
    (Served("GET", "/api/analyses") /\ response.status = 200)
    => \A i, j \in DOMAIN response.body :
          i < j => CreationIndex(response.body[i]) > CreationIndex(response.body[j])

\* a body that lacks a required column or has a value of the wrong type
InvalidBody(body) ==
    \/ body.imageFileName.kind # "string"
    \/ body.imageDimensions.kind = "undefined"
    \/ body.detectedFaces.kind = "undefined"
    \/ body.processingTime.kind \in {"number", "json"}

\* C14: a POST /api/analyses whose body fails schema validation is answered
\* with 400 and a body {error}, and the stored records are the same after the
\* request as before it.
C14_InvalidBodyRejected ==
    [][(/\ response' # NoResponse
        /\ response'.req.method = "POST"
        /\ InvalidBody(response'.req.body))
       => /\ response'.status = 400
          /\ DOMAIN response'.body = {"error"}
          /\ mem' = mem
          /\ database' = database
          /\ issued' = issued]_vars

C14_Witness ==
    /\ Served("POST", "/api/analyses")
    /\ response.req.body.imageFileName = Num(5)
    /\ response.status = 400
    /\ Len(mem.analyses) = 1

\* the analysis records held by the server
Stored == {mem.analyses[i] : i \in DOMAIN mem.analyses} \cup database.faceAnalyses

StoredIds == {record.id : record \in Stored}

\* C15: analysis records are immutable after creation: no create, list or
\* get modifies or removes a stored record; a create that succeeds adds
\* exactly one record, under an id no stored record has, and returns it; a
\* get by id that finds a record returns the stored record of that id.
C15_RecordsImmutable ==
    [][/\ Stored \subseteq Stored'
       /\ \A r1, r2 \in Stored' : r1.id = r2.id => r1 = r2
       /\ issued' = issued => Stored' = Stored
       /\ issued' # issued
          => /\ response'.req.method = "POST"
             /\ response'.status = 200
             /\ response'.body.id \notin StoredIds
             /\ Stored' = Stored \cup {response'.body}
             /\ Cardinality(Stored') = Cardinality(Stored) + 1
       /\ (/\ response' # NoResponse
           /\ response'.req.path = "/api/analyses/:id"
           /\ response'.status = 200)
          => /\ response'.body \in Stored'
             /\ response'.body.id = response'.req.id]_vars

C15_Witness ==
    /\ Served("GET", "/api/analyses/:id")
    /\ response.status = 200
    /\ response.req.id = Uuid(1)
    /\ issued = 2
    /\ response.body = mem.analyses[1]
    /\ response.body.processingTime = Str("1.25s")

\* DATABASE_URL names a durable store
Configured == env # Missing /\ env # Str("")

\* the backend in use is the one the environment calls for, and the other
\* one holds nothing
ChosenByEnvironment ==
    /\ storage = "MemStorage" <=> ~Configured
    /\ storage = "DbStorage" <=> Configured
    /\ storage = "MemStorage" => database = [users |-> {}, faceAnalyses |-> {}]
    /\ storage = "DbStorage" => mem = [users |-> <<>>, analyses |-> <<>>]

\* C16: the backend is chosen once, at process start: in-memory if and only
\* if DATABASE_URL is not set (or empty), durable otherwise; the choice never
\* changes, and no request touches the backend that was not chosen.
C16_BackendChosenOnce ==
    [][/\ ChosenByEnvironment
       /\ ChosenByEnvironment'
       /\ storage' = storage
       /\ env' = env]_vars

C16_Witness ==
    /\ storage = "DbStorage"
    /\ Cardinality(database.faceAnalyses) = 2
    /\ Served("GET", "/api/analyses")
    /\ response.status = 200
    /\ Len(response.body) = 2

----------------------------------------------------------------------------
(* MemStorage and DbStorage side by side: the same calls made on both *)

\* creates made on the pair of instances
MaxCreates == 3

\* MemStorage.getUserByUsername
MemGetUserByUsername(m, username) ==
    LET found == {i \in 1..Len(m.users) : m.users[i].username = username}
    IN  Returned(IF found = {} THEN Missing
                 ELSE m.users[CHOOSE i \in found : \A j \in found : i <= j])

\* MemStorage.createUser
MemCreateUser(m, insertUser, id) ==
    LET user == [id |-> id, username |-> insertUser.username,
                 password |-> insertUser.password]
    IN  [state  |-> [m EXCEPT !.users = Append(@, user)],
         result |-> Returned(user)]

\* DbStorage.getUserByUsername
DbGetUserByUsername(db, d, username) ==
    LET result == {row \in d.users : row.username = username}
    IN  IF ~Truthy(db) THEN Thrown("Database not available")
        ELSE Returned(IF result = {} THEN Missing
                      ELSE CHOOSE row \in result : TRUE)

UniqueMessage == "duplicate key value violates unique constraint"

\* DbStorage.createUser; users.username is declared unique
DbCreateUser(db, d, insertUser, id) ==
    LET row == [id |-> id, username |-> insertUser.username,
                password |-> insertUser.password]
    IN  IF ~Truthy(db)
        THEN [state |-> d, result |-> Thrown("Database not available")]
        ELSE IF \E other \in d.users : other.username = insertUser.username
        THEN [state |-> d, result |-> Thrown(UniqueMessage)]
        ELSE [state  |-> [d EXCEPT !.users = @ \cup {row}],
              result |-> Returned(row)]

\* what the two instances did with the same call
Compared(call, onMem, onDb) == [call |-> call, mem |-> onMem, db |-> onDb]

BothCreateUser(insertUser) ==
    LET m == MemCreateUser(mem, insertUser, Uuid(issued + 1))
        d == DbCreateUser(Db(env), database, insertUser, Uuid(issued + 1))
    IN  /\ issued < MaxCreates
        /\ mem' = m.state
        /\ database' = d.state
        /\ issued' = issued + 1
        /\ response' = Compared([name |-> "createUser", user |-> insertUser],
                                m.result, d.result)
        /\ UNCHANGED <<env, storage, now>>
        /\ UNCHANGED <<hookVars, callVars, fnVars, uiVars>>

BothGetUserByUsername(username) ==
    /\ response' = Compared([name |-> "getUserByUsername", username |-> username],
                            MemGetUserByUsername(mem, username),
                            DbGetUserByUsername(Db(env), database, username))
    /\ UNCHANGED <<env, storage, mem, database, now, issued>>
    /\ UNCHANGED <<hookVars, callVars, fnVars, uiVars>>

BothCreateFaceAnalysis(analysis) ==
    LET m == MemCreateFaceAnalysis(mem, analysis, Uuid(issued + 1), now)
        d == DbCreateFaceAnalysis(Db(env), database, analysis,
                                  Uuid(issued + 1), now, TRUE)
    IN  /\ issued < MaxCreates
        /\ mem' = m.state
        /\ database' = d.state
        /\ issued' = issued + 1
        /\ response' = Compared([name |-> "createFaceAnalysis", analysis |-> analysis],
                                m.result, d.result)
        /\ UNCHANGED <<env, storage, now>>
        /\ UNCHANGED <<hookVars, callVars, fnVars, uiVars>>

BothGetFaceAnalyses(limit, order) ==
    /\ response' = Compared([name |-> "getFaceAnalyses", limit |-> limit],
                            MemGetFaceAnalyses(mem, limit),
                            DbGetFaceAnalyses(Db(env), database, limit, TRUE, order))
    /\ UNCHANGED <<env, storage, mem, database, now, issued>>
    /\ UNCHANGED <<hookVars, callVars, fnVars, uiVars>>

BothGetFaceAnalysis(id) ==
    /\ response' = Compared([name |-> "getFaceAnalysis", id |-> id],
                            MemGetFaceAnalysis(mem, id),
                            DbGetFaceAnalysis(Db(env), database, id, TRUE))
    /\ UNCHANGED <<env, storage, mem, database, now, issued>>
    /\ UNCHANGED <<hookVars, callVars, fnVars, uiVars>>

InsertUsers ==
    {[username |-> "ann", password |-> "pw1"],
     [username |-> "bob", password |-> "pw2"]}

Usernames == {"ann", "bob"}

\* bodies that passed insertFaceAnalysisSchema
InsertFaceAnalyses ==
    {Body(Str("a.png"), Dims512, Json(<<>>), Str("1.25s")),
     Body(Str("a.png"), Dims512, Json(<<>>), Str(""))}

LimitArguments == {Num(1), Num(10)}

InitBackends ==
    /\ HookInit
    /\ UiInit
    /\ arg = NoArg
    /\ out = NoArg
    /\ env = Str("postgres://db")
    /\ storage = StorageOf(env)
    /\ mem = [users |-> <<>>, analyses |-> <<>>]
    /\ database = [users |-> {}, faceAnalyses |-> {}]
    /\ now = 0
    /\ issued = 0
    /\ response = NoResponse

NextBackends ==
    \/ Tick
    \/ \E insertUser \in InsertUsers : BothCreateUser(insertUser)
    \/ \E username \in Usernames : BothGetUserByUsername(username)
    \/ \E analysis \in InsertFaceAnalyses : BothCreateFaceAnalysis(analysis)
    \/ \E limit \in LimitArguments :
          \E order \in DbOrderings(database.faceAnalyses) :
             BothGetFaceAnalyses(limit, order)
    \/ \E id \in Ids : BothGetFaceAnalysis(id)

SpecBackends == InitBackends /\ [][NextBackends]_vars

\* two lists of records of the same length and with the same timestamps
SameTimestamps(a, b) ==
    /\ Len(a) = Len(b)
    /\ \A i \in DOMAIN a : a[i].analysisTimestamp = b[i].analysisTimestamp

\* C17: MemStorage and DbStorage give the same outcome for every sequence
\* of createUser, getUserByUsername, createFaceAnalysis, getFaceAnalyses and
\* getFaceAnalysis calls, given the same ids and clock (lists are compared up
\* to the order of records with equal timestamps); in particular both reject
\* a createUser with a username already taken and both store processingTime
\* as given.
C17_BackendsInterchangeable ==
    response # NoResponse
    => /\ response.mem.kind = response.db.kind
       /\ response.mem.kind = "return"
          => IF response.call.name = "getFaceAnalyses"
             THEN SameTimestamps(response.mem.value, response.db.value)
             ELSE response.mem.value = response.db.value

----------------------------------------------------------------------------
(* The FaceAnalysis component: uploads and the analysis run of each *)

\* files dropped, pictures or not
MaxDrops == 2
\* ticks of the progress timer between two resets of the progress
MaxTicks == 1

\* a File with the natural size of the picture it holds
File(name, type, width, height) ==
    [name |-> name, type |-> type, width |-> width, height |-> height]

\* file.type is given as <<type, subtype>>
Photo == File("a.png", <<"image", "png">>, 512, 384)
Scan == File("b.jpg", <<"image", "jpeg">>, 2048, 1536)
Notes == File("notes.png", <<"text", "plain">>, 0, 0)

Files == {Photo, Scan, Notes}

\* file.type.startsWith('image/')
IsImage(file) == file.type[1] = "image"

\* URL.createObjectURL(file)
ObjectUrl(file) == [kind |-> "blob", of |-> file.name]

\* { width: img.naturalWidth, height: img.naturalHeight }
NaturalDimensions(file) == [width |-> file.width, height |-> file.height]

\* toast({ title, ... }) called by analysis run r; 0 when called by onDrop
Toast(title, r) == [title |-> title, run |-> r]

Titles(r) == {toasts[i].title : i \in {k \in DOMAIN toasts : toasts[k].run = r}}

\* the files dropped so far that reached the body of onDrop
Drops == Len(runs) + Cardinality({i \in DOMAIN toasts : toasts[i].run = 0})

\* what the render that created onDrop and analyzeImage saw
Closure ==
    [isLoaded |-> isLoaded, imageDimensions |-> imageDimensions,
     imageName |-> imageName]

\* an upload whose picture has not loaded yet
NewRun(file) ==
    [file |-> file, closure |-> Closure, phase |-> "loading",
     interval |-> FALSE, timeout |-> FALSE]

OnDropAcceptingAll(acceptedFiles) ==
    /\ acceptedFiles # <<>>
    /\ imageName' = acceptedFiles[1].name
    /\ uploadedImage' = ObjectUrl(acceptedFiles[1])
    /\ detectedFaces' = <<>>
    /\ analysisStats' = Null
    /\ analysisProgress' = 0
    /\ runs' = Append(runs, NewRun(acceptedFiles[1]))
    /\ UNCHANGED <<imageDimensions, isAnalyzing, toasts, posted, localHistory>>
    /\ UNCHANGED <<hookVars, callVars, fnVars, serverVars>>

\* onDrop(acceptedFiles)
OnDrop(acceptedFiles) ==
    /\ IF acceptedFiles = <<>>
       THEN UNCHANGED uiVars
       ELSE IF ~IsImage(acceptedFiles[1])
       THEN /\ toasts' = Append(toasts, Toast("Invalid file type", 0))
            /\ UNCHANGED <<stateVars, runs, posted, localHistory>>
       ELSE /\ imageName' = acceptedFiles[1].name
            /\ uploadedImage' = ObjectUrl(acceptedFiles[1])
            /\ detectedFaces' = <<>>
            /\ analysisStats' = Null
            /\ analysisProgress' = 0
            /\ runs' = Append(runs, NewRun(acceptedFiles[1]))
            /\ UNCHANGED <<imageDimensions, isAnalyzing, toasts, posted, localHistory>>
    /\ UNCHANGED <<hookVars, callVars, fnVars, serverVars>>

\* img.onload of upload r: the dimensions are stored and analyzeImage(img)
\* runs up to its await, or returns at its guard
ImgOnload(r) ==
    /\ runs[r].phase = "loading"
    /\ imageDimensions' = NaturalDimensions(runs[r].file)
    /\ IF ~runs[r].closure.isLoaded
       THEN /\ toasts' = Append(toasts, Toast("Models not ready", r))
            /\ runs' = [runs EXCEPT ![r].phase = "not ready"]
            /\ UNCHANGED <<isAnalyzing, analysisProgress>>
       ELSE /\ isAnalyzing' = TRUE
            /\ analysisProgress' = 0
            /\ runs' = [runs EXCEPT ![r].phase = "detecting", ![r].interval = TRUE]
            /\ UNCHANGED toasts
    /\ UNCHANGED <<uploadedImage, detectedFaces, analysisStats, imageName,
                   posted, localHistory>>
    /\ UNCHANGED <<hookVars, callVars, fnVars, serverVars>>

\* the interval callback of run r: setAnalysisProgress(prev => Math.min(prev + 10, 90))
ProgressTick(r) ==
    /\ runs[r].interval
    /\ analysisProgress < 10 * MaxTicks
    /\ analysisProgress' = IntMin(analysisProgress + 10, 90)
    /\ UNCHANGED <<uploadedImage, imageDimensions, detectedFaces, analysisStats,
                   isAnalyzing, imageName, runs, toasts, posted, localHistory>>
    /\ UNCHANGED <<hookVars, callVars, fnVars, serverVars>>

HistoryLimit == 10

\* unshift without the pop
UnshiftKeepingAll(history, entry) == <<entry>> \o history

\* localHistory.unshift(newAnalysis), pop when longer than 10
Unshift(history, entry) ==
    LET longer == <<entry>> \o history
    IN  IF Len(longer) > HistoryLimit
        THEN SubSeq(longer, 1, Len(longer) - 1) ELSE longer

\* analyzeImage of run r resumes after `await detectFaces(image)` resolved
\* with faces after elapsed milliseconds; storageOk is whether the local
\* storage calls go through
DetectResolve(r, faces, elapsed, storageOk) ==
    LET dims == IF runs[r].closure.imageDimensions # Null
                THEN runs[r].closure.imageDimensions
                ELSE NaturalDimensions(runs[r].file)
        analysisData ==
            [imageFileName   |-> runs[r].closure.imageName,
             imageDimensions |-> dims,
             detectedFaces   |-> faces,
             processingTime  |-> <<R(elapsed, 1000), "s">>]
        newAnalysis ==
            [id |-> Uuid(Len(posted) + 1), data |-> analysisData,
             analysisTimestamp |-> now]
    IN  /\ runs[r].phase = "detecting"
        /\ analysisProgress' = 100
        /\ detectedFaces' = faces
        /\ analysisStats' = CalculateAnalysisStats(faces, elapsed, dims)
        /\ posted' = Append(posted, [run |-> r, body |-> analysisData,
                                      status |-> "pending"])
        /\ IF storageOk
           THEN /\ localHistory' = Unshift(localHistory, newAnalysis)
                /\ toasts' = Append(toasts, Toast("Analysis complete", r))
           ELSE /\ localHistory' = localHistory
                /\ toasts' = toasts \o <<Toast("Analysis complete", r),
                                         Toast("Analysis failed", r)>>
        /\ isAnalyzing' = FALSE
        /\ runs' = [runs EXCEPT ![r].phase = "done", ![r].interval = FALSE,
                                ![r].timeout = TRUE]
        /\ UNCHANGED <<uploadedImage, imageDimensions, imageName>>
        /\ UNCHANGED <<hookVars, callVars, fnVars, serverVars>>

\* a catch without the `finally`: the failed run leaves isAnalyzing set
DetectRejectNoFinally(r) ==
    /\ runs[r].phase = "detecting"
    /\ toasts' = Append(toasts, Toast("Analysis failed", r))
    /\ runs' = [runs EXCEPT ![r].phase = "failed"]
    /\ UNCHANGED <<uploadedImage, imageDimensions, detectedFaces, analysisStats,
                   isAnalyzing, analysisProgress, imageName, posted, localHistory>>
    /\ UNCHANGED <<hookVars, callVars, fnVars, serverVars>>

\* analyzeImage of run r resumes after `await detectFaces(image)` rejected
DetectReject(r) ==
    /\ runs[r].phase = "detecting"
    /\ toasts' = Append(toasts, Toast("Analysis failed", r))
    /\ isAnalyzing' = FALSE
    /\ runs' = [runs EXCEPT ![r].phase = "failed", ![r].timeout = TRUE]
    /\ UNCHANGED <<uploadedImage, imageDimensions, detectedFaces, analysisStats,
                   analysisProgress, imageName, posted, localHistory>>
    /\ UNCHANGED <<hookVars, callVars, fnVars, serverVars>>

\* the request of saveAnalysisMutation for the k-th posted body settles: ok is
\* whether apiRequest and res.json() went through; only onSuccess is defined
SaveSettled(k, ok) ==
    /\ posted[k].status = "pending"
    /\ IF ok
       THEN /\ posted' = [posted EXCEPT ![k].status = "success"]
            /\ toasts' = Append(toasts, Toast("Analysis saved", posted[k].run))
       ELSE /\ posted' = [posted EXCEPT ![k].status = "error"]
            /\ UNCHANGED toasts
    /\ UNCHANGED <<stateVars, runs, localHistory>>
    /\ UNCHANGED <<hookVars, callVars, fnVars, serverVars>>

\* the timeout set in `finally` by run r: setAnalysisProgress(0)
ResetProgress(r) ==
    /\ runs[r].timeout
    /\ analysisProgress' = 0
    /\ runs' = [runs EXCEPT ![r].timeout = FALSE]
    /\ UNCHANGED <<uploadedImage, imageDimensions, detectedFaces, analysisStats,
                   isAnalyzing, imageName, toasts, posted, localHistory>>
    /\ UNCHANGED <<hookVars, callVars, fnVars, serverVars>>

\* handleAnalyzeNew; its button is rendered while detectedFaces is not empty
HandleAnalyzeNew ==
    /\ Len(detectedFaces) > 0
    /\ uploadedImage' = Null
    /\ detectedFaces' = <<>>
    /\ analysisStats' = Null
    /\ imageDimensions' = Null
    /\ imageName' = ""
    /\ UNCHANGED <<isAnalyzing, analysisProgress, runs, toasts, posted, localHistory>>
    /\ UNCHANGED <<hookVars, callVars, fnVars, serverVars>>

\* a result of detectFaces
FaceResult(index, age, ageConfidence, gender, genderConfidence) ==
    [id |-> FaceId(index), age |-> age, ageConfidence |-> ageConfidence,
     gender |-> gender, genderConfidence |-> genderConfidence]

\* the faces the detector finds in the picture of a file: two in the photo,
\* none in the scan
FacesOf(file) ==
    IF file = Photo
    THEN <<FaceResult(0, 64, 73, "female", 56), FaceResult(1, 31, 90, "male", 91)>>
    ELSE <<>>

\* what detectFaces may resolve with for a file
Detections(file) == {FacesOf(file)}

\* endTime - startTime in milliseconds
Elapsed == {1250}

Dropped == {<<>>} \cup {<<file>> : file \in Files}

InitUI ==
    /\ HookInit
    /\ ServerInit
    /\ UiInit
    /\ arg = NoArg
    /\ out = NoArg

NextUI ==
    \/ LoadModelsResolve
    \/ LoadModelsReject
    \/ \E acceptedFiles \in Dropped : Drops < MaxDrops /\ OnDrop(acceptedFiles)
    \/ \E r \in DOMAIN runs : ImgOnload(r)
    \/ \E r \in DOMAIN runs : ProgressTick(r)
    \/ \E r \in DOMAIN runs :
          \E faces \in Detections(runs[r].file), elapsed \in Elapsed, storageOk \in BOOLEAN :
             DetectResolve(r, faces, elapsed, storageOk)
    \/ \E r \in DOMAIN runs : DetectReject(r)
    \/ \E r \in DOMAIN runs : ResetProgress(r)
    \/ HandleAnalyzeNew

SpecUI == InitUI /\ [][NextUI]_vars

\* files dropped on the page when detectFaces is also called on its own
MaxUploads == 1

\* the page with its hook: the component, and detectFaces called directly on
\* a picture in which no face is found
NextApp ==
    \/ LoadModelsResolve
    \/ LoadModelsReject
    \/ \E ens \in BOOLEAN, ctxOk \in BOOLEAN : DetectFacesCall(Img(512, 384), ens, ctxOk)
    \/ DetectAllFacesResolve(<<>>)
    \/ DetectAllFacesReject
    \/ \E acceptedFiles \in Dropped : Drops < MaxUploads /\ OnDrop(acceptedFiles)
    \/ \E r \in DOMAIN runs : ImgOnload(r)
    \/ \E r \in DOMAIN runs : ProgressTick(r)
    \/ \E r \in DOMAIN runs :
          \E faces \in Detections(runs[r].file), elapsed \in Elapsed, storageOk \in BOOLEAN :
             DetectResolve(r, faces, elapsed, storageOk)
    \/ \E r \in DOMAIN runs : DetectReject(r)
    \/ \E r \in DOMAIN runs : ResetProgress(r)
    \/ HandleAnalyzeNew

SpecApp == InitUI /\ [][NextApp]_vars

\* the page together with the settling of its save requests
NextSave ==
    \/ LoadModelsResolve
    \/ LoadModelsReject
    \/ \E acceptedFiles \in Dropped : Drops < MaxDrops /\ OnDrop(acceptedFiles)
    \/ \E r \in DOMAIN runs : ImgOnload(r)
    \/ \E r \in DOMAIN runs : ProgressTick(r)
    \/ \E r \in DOMAIN runs :
          \E faces \in Detections(runs[r].file), elapsed \in Elapsed, storageOk \in BOOLEAN :
             DetectResolve(r, faces, elapsed, storageOk)
    \/ \E r \in DOMAIN runs : DetectReject(r)
    \/ \E k \in DOMAIN posted, ok \in BOOLEAN : SaveSettled(k, ok)
    \/ \E r \in DOMAIN runs : ResetProgress(r)
    \/ HandleAnalyzeNew

SpecSave == InitUI /\ [][NextSave]_vars

----------------------------------------------------------------------------
(* Properties of the FaceAnalysis component *)

\* C18: a drop of a file whose type does not start with 'image/' shows
\* exactly one 'Invalid file type' notification and does nothing else: no
\* analysis run is created, nothing is posted or added to the local history,
\* and uploadedImage, imageName, imageDimensions, detectedFaces,
\* analysisStats, isAnalyzing and analysisProgress keep their values.
C18_NonImageRejected ==
    [][(\E file \in Files : ~IsImage(file) /\ OnDrop(<<file>>))
       => /\ toasts' = Append(toasts, Toast("Invalid file type", 0))
          /\ UNCHANGED <<uploadedImage, imageName, imageDimensions, detectedFaces,
                         analysisStats, isAnalyzing, analysisProgress>>
          /\ UNCHANGED <<runs, posted, localHistory, callVars>>]_vars

C18_Witness ==
    /\ toasts # <<>>
    /\ toasts[Len(toasts)] = Toast("Invalid file type", 0)
    /\ imageName = "a.png"
    /\ Len(detectedFaces) = 2
    /\ analysisStats # Null

\* C19: when detection fails for an uploaded image the failure is
\* caught, 'Analysis failed' is shown, detectedFaces stays empty,
\* analysisStats stays null, and nothing is posted or added to the local
\* history.
C19_NoResultsAfterFailure ==
    [][\A r \in DOMAIN runs :
          DetectReject(r)
          => /\ toasts' = Append(toasts, Toast("Analysis failed", r))
             /\ detectedFaces' = <<>>
             /\ analysisStats' = Null
             /\ posted' = posted
             /\ localHistory' = localHistory]_vars

\* the hook is in its error state
LoadFailed == error # NoError

\* no upload has got as far as calling detectFaces, and nothing is shown or kept
NoAnalysis ==
    /\ \A r \in DOMAIN runs : runs[r].phase \in {"loading", "not ready"}
    /\ detectedFaces = <<>>
    /\ analysisStats = Null
    /\ isAnalyzing = FALSE
    /\ posted = <<>>
    /\ localHistory = <<>>

\* C20: after a model load failure the hook stays in the error state (error
\* set, isLoaded false, isLoading false) and the load is not retried; every
\* detectFaces call made then rejects with 'Face-API models not loaded yet',
\* and every upload ends at the 'Models not ready' guard without results,
\* stats or a posted or locally kept record.  isLoaded and error are never
\* both set.
C20_LoadFailureIsFinal ==
    [][/\ ~(isLoaded /\ LoadFailed)
       /\ ~(isLoaded' /\ LoadFailed')
       /\ LoadFailed
          => /\ ~isLoaded /\ ~isLoading
             /\ UNCHANGED hookVars
             /\ NoAnalysis
             /\ NoAnalysis'
             /\ (\E ens \in BOOLEAN, ctxOk \in BOOLEAN :
                    DetectFacesCall(Img(512, 384), ens, ctxOk))
                => pc' = "threw" /\ thrown' = NotLoadedMessage
             /\ \A r \in DOMAIN runs :
                   ImgOnload(r)
                   => /\ runs'[r].phase = "not ready"
                      /\ toasts' = Append(toasts, Toast("Models not ready", r))]_vars

C20_Witness ==
    /\ LoadFailed
    /\ pc = "threw"
    /\ thrown = NotLoadedMessage
    /\ Len(runs) = 1
    /\ runs[1].phase = "not ready"
    /\ uploadedImage = ObjectUrl(Photo)
    /\ Titles(1) = {"Models not ready"}

\* ---------------------------------------------------------------------
\* Failures and their notifications

\* how many toasts with this title the run r has raised
Notified(title, r) ==
    Cardinality({i \in DOMAIN toasts : toasts[i] = Toast(title, r)})

\* the toasts of run r that report a failure: every one the page raises with
\* variant "destructive" after the picture was accepted
FailureReports(r) ==
    Cardinality({i \in DOMAIN toasts :
                    /\ toasts[i].run = r
                    /\ toasts[i].title \in {"Analysis failed", "Models not ready"}})

\* C21: every failure is reported exactly once: a failed detection has exactly
\* one "Analysis failed" toast, a save request that failed has exactly one
\* failure report, and no run has both "Analysis complete" and "Analysis failed"
C21_FailureReportedOnce ==
    /\ \A r \in DOMAIN runs :
          /\ runs[r].phase = "failed" => Notified("Analysis failed", r) = 1
          /\ ~({"Analysis complete", "Analysis failed"} \subseteq Titles(r))
    /\ \A k \in DOMAIN posted :
          posted[k].status = "error" => FailureReports(posted[k].run) = 1

\* ---------------------------------------------------------------------
\* The order of the crop inferences within one detectFaces call

\* the face whose crops are in flight while pc = "crops"
CurrentFace == Len(ensembleResults) + 1

AllPending(ps) == \A i \in DOMAIN ps : ps[i] = Pending

NonePending(ps) == \A i \in DOMAIN ps : ps[i] # Pending

\* C22: faces are refined one at a time: the three crop inferences of a face
\* are started together, the crops of the next face are started only when all
\* three of this face have completed, and results are pushed in face order
C22_OneFaceAtATime ==
    [][/\ (pc' = "crops" /\ (pc # "crops" \/ CurrentFace' # CurrentFace))
             => /\ DOMAIN preds' = DOMAIN Paddings
                /\ AllPending(preds')
                /\ crops' = Crops(initialResults'[CurrentFace'].rawBox, canvas')
       /\ (pc = "crops" /\ ~NonePending(preds))
             => /\ crops' = crops
                /\ ensembleResults' = ensembleResults
                /\ pc' \in {"crops", "threw"}
       /\ (pc = "crops" /\ ensembleResults' # ensembleResults)
             => /\ NonePending(preds)
                /\ Len(ensembleResults') = CurrentFace
                /\ SubSeq(ensembleResults', 1, Len(ensembleResults)) = ensembleResults
                /\ ensembleResults'[CurrentFace].id = initialResults[CurrentFace].id
       /\ (pc = "crops" /\ pc' = "returned") => Len(returned') = Len(initialResults)
      ]_vars

\* the second face is being refined: one of its crops is back, another is not
C22_Witness ==
    /\ pc = "crops"
    /\ CurrentFace = 2
    /\ \E i, j \in DOMAIN preds : preds[i] # Pending /\ preds[j] = Pending

\* ---------------------------------------------------------------------
\* Analysis runs that overlap

\* analyzeImage of run r is between its setIsAnalyzing(true) and its `finally`
InFlight(r) == runs[r].phase = "detecting"

\* this step is the end of analyzeImage of run r, by success or by failure
Ends(r) == InFlight(r) /\ runs'[r].phase \in {"done", "failed"}

\* C23: analysis runs share no mutable state: the step that ends one run
\* writes none of the variables that another run still in flight has written
\* or will write
C23_RunsShareNoState ==
    [][\A r, o \in DOMAIN runs :
          (r # o /\ Ends(r) /\ InFlight(o))
             => UNCHANGED <<detectedFaces, analysisStats, isAnalyzing,
                            analysisProgress, localHistory>>]_vars

\* ---------------------------------------------------------------------
\* Every analysis ends

\* `await detectFaces(image)` of run r settles, one way or the other
DetectSettles(r) ==
    /\ r \in DOMAIN runs
    /\ \/ \E faces \in Detections(runs[r].file), elapsed \in Elapsed, storageOk \in BOOLEAN :
             DetectResolve(r, faces, elapsed, storageOk)
       \/ DetectReject(r)

\* every model inference call eventually returns or throws: the promise an
\* analysis run awaits, and the detection chain of a direct detectFaces call
InferenceSettles ==
    /\ \A r \in 1..MaxUploads : WF_vars(DetectSettles(r))
    /\ WF_vars(DetectAllFacesResolve(<<>>) \/ DetectAllFacesReject)

SpecAppFair == SpecApp /\ InferenceSettles

Ended(r) == r \in DOMAIN runs /\ runs[r].phase \in {"done", "failed"}

\* C24: a started analysis runs to completion or throws: it eventually ends,
\* isAnalyzing is eventually false again, the only way out of the in-flight
\* phase is the success or the failure path, and each of them clears isAnalyzing
C24_AnalysisEnds ==
    /\ \A r \in 1..MaxUploads : (r \in DOMAIN runs /\ InFlight(r)) ~> Ended(r)
    /\ isAnalyzing ~> ~isAnalyzing
    /\ (pc = "detectAllFaces") ~> (pc \in {"returned", "threw"})
    /\ [][\A r \in DOMAIN runs :
             InFlight(r) => /\ runs'[r].phase \in {"detecting", "done", "failed"}
                            /\ Ends(r) => ~isAnalyzing']_vars

\* an analysis has ended on the failure path and nothing is being analysed
C24_Witness ==
    /\ \E r \in DOMAIN runs : runs[r].phase = "failed"
    /\ ~isAnalyzing
    /\ analysisProgress > 0

\* ---------------------------------------------------------------------
\* handleExportData: the CSV text, character by character

DigitChars == <<"0", "1", "2", "3", "4", "5", "6", "7", "8", "9">>

RECURSIVE NatToChars(_)
\* the decimal digits of a natural number
NatToChars(n) ==
    IF n < 10 THEN <<DigitChars[n + 1]>>
    ELSE NatToChars(n \div 10) \o <<DigitChars[(n % 10) + 1]>>

RECURSIVE FractionChars(_, _)
\* the digits after the decimal point of r/d, 0 <= r < d, d with a finite expansion
FractionChars(r, d) ==
    IF r = 0 THEN <<>>
    ELSE <<DigitChars[((10 * r) \div d) + 1]>> \o FractionChars((10 * r) % d, d)

\* `${x}` of a number x = q.n / q.d
NumberToString(q) ==
    LET a == IF q.n < 0 THEN 0 - q.n ELSE q.n
        r == a % q.d
    IN  (IF q.n < 0 THEN <<"-">> ELSE <<>>)
        \o NatToChars(a \div q.d)
        \o (IF r = 0 THEN <<>> ELSE <<".">> \o FractionChars(r, q.d))

\* `face-${index + 1}` as characters
IdToString(id) == <<"f", "a", "c", "e", "-">> \o NatToChars(id[2])

GenderToString(gender) ==
    IF gender = "male" THEN <<"m", "a", "l", "e">>
    ELSE <<"f", "e", "m", "a", "l", "e">>

RECURSIVE Join(_, _)
\* parts.join(sep)
Join(parts, sep) ==
    IF parts = <<>> THEN <<>>
    ELSE IF Len(parts) = 1 THEN parts[1]
    ELSE parts[1] \o <<sep>> \o Join(Tail(parts), sep)

\* the fields of the row of one face
CsvFields(face) ==
    <<IdToString(face.id), NumberToString(Int2R(face.age)),
      NumberToString(Int2R(face.ageConfidence)), GenderToString(face.gender),
      NumberToString(Int2R(face.genderConfidence)),
      NumberToString(face.box.x), NumberToString(face.box.y),
      NumberToString(face.box.width), NumberToString(face.box.height)>>

CsvHeader ==
    <<"F", "a", "c", "e", " ", "I", "D", ",", "A", "g", "e", ",", "A", "g",
      "e", " ", "C", "o", "n", "f", "i", "d", "e", "n", "c", "e", ",", "G",
      "e", "n", "d", "e", "r", ",", "G", "e", "n", "d", "e", "r", " ", "C",
      "o", "n", "f", "i", "d", "e", "n", "c", "e", ",", "X", ",", "Y", ",",
      "W", "i", "d", "t", "h", ",", "H", "e", "i", "g", "h", "t">>

NoFile == [kind |-> "no file"]

\* an export that does not look at the number of faces
HandleExportDataUnguarded(faces) ==
    [kind |-> "file", type |-> "text/csv",
     text |-> CsvHeader \o <<"\n">>
              \o Join([k \in DOMAIN faces |-> Join(CsvFields(faces[k]), ",")], "\n")]

\* handleExportData with detectedFaces = faces: the Blob handed to the browser
HandleExportData(faces) ==
    IF Len(faces) > 0
    THEN [kind |-> "file", type |-> "text/csv",
          text |-> CsvHeader \o <<"\n">>
                   \o Join([k \in DOMAIN faces |-> Join(CsvFields(faces[k]), ",")], "\n")]
    ELSE NoFile

\* faces in one exported list
MaxExportFaces == 3

\* what a detected face may carry besides its id
ExportFaces ==
    {[age |-> 64, ageConfidence |-> 73, gender |-> "female", genderConfidence |-> 56,
      box |-> [x |-> R(25, 2), y |-> Int2R(0), width |-> Int2R(100), height |-> R(401, 4)]],
     [age |-> 31, ageConfidence |-> 90, gender |-> "male", genderConfidence |-> 91,
      box |-> [x |-> R(0 - 3, 1), y |-> R(1, 8), width |-> Int2R(7), height |-> Int2R(10)]],
     [age |-> 0, ageConfidence |-> 75, gender |-> "male", genderConfidence |-> 0,
      box |-> [x |-> Int2R(1099), y |-> R(0 - 1, 2), width |-> R(3, 4), height |-> Int2R(1)]],
     [age |-> 120, ageConfidence |-> 70, gender |-> "female", genderConfidence |-> 100,
      box |-> [x |-> Int2R(0), y |-> Int2R(0), width |-> Int2R(1024), height |-> Int2R(768)]]}

\* detectedFaces as detectFaces returns them: the k-th face has id face-k
ExportInputs ==
    {[kind |-> "detected",
      faces |-> [k \in DOMAIN fs |->
                    [id |-> FaceId(k - 1), age |-> fs[k].age,
                     ageConfidence |-> fs[k].ageConfidence, gender |-> fs[k].gender,
                     genderConfidence |-> fs[k].genderConfidence, box |-> fs[k].box]]] :
        fs \in UNION {[1..n -> ExportFaces] : n \in 0..MaxExportFaces}}

\* a click on "Export Data"
ApplyExport ==
    /\ arg.kind = "detected"
    /\ out = NoArg
    /\ out' = HandleExportData(arg.faces)
    /\ UNCHANGED <<arg, hookVars, callVars, serverVars, uiVars>>

InitExport ==
    /\ HookInit
    /\ ServerInit
    /\ UiInit
    /\ arg \in ExportInputs
    /\ out = NoArg

SpecExport == InitExport /\ [][ApplyExport]_vars

RECURSIVE Split(_, _)
\* text.split(sep)
Split(text, sep) ==
    IF \A i \in DOMAIN text : text[i] # sep THEN <<text>>
    ELSE LET i == CHOOSE j \in DOMAIN text :
                      text[j] = sep /\ \A k \in 1..(j - 1) : text[k] # sep
         IN  <<SubSeq(text, 1, i - 1)>> \o Split(SubSeq(text, i + 1, Len(text)), sep)

\* C25: the export is the header line followed by one row per detected face,
\* in face order, each row holding that face's id, age, ageConfidence, gender,
\* genderConfidence and box x, y, width, height; with no faces there is no file
C25_CsvOneRowPerFace ==
    (arg.kind = "detected" /\ out # NoArg) =>
        IF arg.faces = <<>>
        THEN out = NoFile
        ELSE /\ out.kind = "file"
             /\ LET lines == Split(out.text, "\n")
                IN  /\ Len(lines) = Len(arg.faces) + 1
                    /\ lines[1] = CsvHeader
                    /\ \A k \in DOMAIN arg.faces :
                          Split(lines[k + 1], ",") = CsvFields(arg.faces[k])

\* three faces were exported, one of them with a negative and a fractional box value
C25_Witness ==
    /\ arg.kind = "detected"
    /\ Len(arg.faces) = 3
    /\ out # NoArg
    /\ out.kind = "file"
    /\ \E k \in DOMAIN arg.faces : arg.faces[k].box.x.n < 0

\* ---------------------------------------------------------------------
\* What the persisted record says about the picture

\* the record describes the file that run r analysed
Describes(data, r) ==
    /\ data.imageFileName = runs[r].file.name
    /\ data.imageDimensions = NaturalDimensions(runs[r].file)

\* C26: every persisted record, the POST body and the local-history entry
\* alike, carries the name of the file dropped for its run and the natural
\* width and height of that picture
C26_RecordDescribesImage ==
    /\ \A k \in DOMAIN posted : Describes(posted[k].body, posted[k].run)
    /\ \A h \in DOMAIN localHistory :
          \A k \in DOMAIN posted :
             localHistory[h].id = Uuid(k) => Describes(localHistory[h].data, posted[k].run)

\* ---------------------------------------------------------------------
\* The local history over many analyses

\* analyses whose detection succeeded, one after the other
MaxCompleted == 12

NoHistory == [kind |-> "history", attempts |-> 0, completed |-> <<>>]

\* the tail of analyzeImage for the next analysis, from
\* saveAnalysisMutation.mutate to localStorage.setItem: the analysis is
\* completed when the storage calls go through, otherwise the catch runs
WriteHistory(storageOk) ==
    LET k == arg.attempts + 1
        newAnalysis ==
            [id |-> Uuid(k),
             data |-> [imageFileName |-> IF k % 2 = 1 THEN Photo.name ELSE Scan.name,
                       imageDimensions |-> NaturalDimensions(IF k % 2 = 1 THEN Photo ELSE Scan),
                       detectedFaces |-> FacesOf(IF k % 2 = 1 THEN Photo ELSE Scan),
                       processingTime |-> <<R(1250, 1000), "s">>],
             analysisTimestamp |-> k]
    IN  /\ arg.kind = "history"
        /\ arg.attempts < MaxCompleted
        /\ IF storageOk
           THEN /\ localHistory' = Unshift(localHistory, newAnalysis)
                /\ arg' = [arg EXCEPT !.attempts = k,
                                      !.completed = Append(@, newAnalysis)]
           ELSE /\ localHistory' = localHistory
                /\ arg' = [arg EXCEPT !.attempts = k]
        /\ UNCHANGED <<out, stateVars, runs, toasts, posted>>
        /\ UNCHANGED <<hookVars, callVars, serverVars>>

InitHistory ==
    /\ HookInit
    /\ ServerInit
    /\ UiInit
    /\ arg = NoHistory
    /\ out = NoArg

NextHistory == \E storageOk \in BOOLEAN : WriteHistory(storageOk)

SpecHistory == InitHistory /\ [][NextHistory]_vars

\* C27: from an empty history, after any number of completed analyses the
\* stored list has at most 10 entries, newest first, and they are exactly the
\* most recent completed analyses
C27_HistoryMostRecentTen ==
    arg.kind = "history" =>
        LET n == Len(arg.completed)
            kept == IntMin(n, HistoryLimit)
        IN  /\ Len(localHistory) = kept
            /\ Len(localHistory) <= 10
            /\ \A h \in DOMAIN localHistory : localHistory[h] = arg.completed[n + 1 - h]

\* twelve analyses completed: the two oldest have been dropped
C27_Witness ==
    /\ arg.kind = "history"
    /\ Len(arg.completed) = 12
    /\ Len(localHistory) = 10
    /\ localHistory[1].id = Uuid(12)
    /\ localHistory[10].id = Uuid(3)

\* ---------------------------------------------------------------------
\* Which upload the results on screen belong to

\* no upload is waiting for its picture or for its detection
AllSettled == \A r \in DOMAIN runs : runs[r].phase \notin {"loading", "detecting"}

\* the most recently dropped file
LastDropped == runs[Len(runs)].file

\* C28: isAnalyzing is true whenever an analysis is in flight, and once every
\* analysis has finished the faces shown are those of the most recently
\* dropped picture (or none): a late result of an earlier picture does not
\* outlive a later upload
C28_LatestUploadShown ==
    /\ (\E r \in DOMAIN runs : InFlight(r)) => isAnalyzing
    /\ (runs # <<>> /\ AllSettled) => detectedFaces \in {<<>>, FacesOf(LastDropped)}

\* ---------------------------------------------------------------------
\* The simulated progress

\* the setInterval of some run has not been cleared
TimerRunning == \E r \in DOMAIN runs : runs[r].interval

\* a setTimeout(() => setAnalysisProgress(0), 1000) has not fired yet
ResetPending == \E r \in DOMAIN runs : runs[r].timeout

\* C29: the progress is at most 90 while a detection is in flight, becomes 100
\* only by a detection that succeeded, no progress timer runs once an
\* analysis has ended, and the progress, back at 0 after the last analysis,
\* stays 0 until the next analysis starts
C29_ProgressCleanedUp ==
    [][/\ (\E r \in DOMAIN runs : InFlight(r)) => analysisProgress <= 90
       /\ (analysisProgress' = 100 /\ analysisProgress # 100)
             => \E r \in DOMAIN runs : Ends(r) /\ runs'[r].phase = "done"
       /\ \A r \in DOMAIN runs : Ended(r) => ~runs[r].interval
       /\ (runs # <<>> /\ AllSettled /\ ~ResetPending /\ analysisProgress = 0)
             => analysisProgress' = 0
      ]_vars

\* ---------------------------------------------------------------------
\* The result list of detectFaces

\* C30: a detectFaces call that returned gives one result per initial
\* detection, in detection order: the k-th result has the id face-k, whether
\* the face was refined, fell back, or the ensemble was off, and the ids of
\* one list are distinct
C30_OneResultPerDetection ==
    pc = "returned" =>
        /\ Len(returned) = Len(detections)
        /\ \A k \in DOMAIN returned : returned[k].id = <<"face-", k>>
        /\ \A j, k \in DOMAIN returned : returned[j].id = returned[k].id => j = k

\* an ensemble call returned two faces, the first refined from its crops and
\* the second fallen back to its initial detection
C30_Witness ==
    /\ pc = "returned"
    /\ useEnsemble
    /\ Len(returned) = 2
    /\ Len(detections) = 2
    /\ returned[2] = FallbackResult(initialResults[2])
    /\ returned[1] # FallbackResult(initialResults[1])

====
